---- MODULE Spec2Model ----
(***************************************************************************)
(* A model of scripts/parse-aria-spec.js: the batch pipeline that reads    *)
(* the ARIA specification documents, extracts roles and attributes,        *)
(* resolves each role's inherited property list from the roleInfo table,   *)
(* categorizes the roles and writes aria-data.json.                        *)
(*                                                                         *)
(* JavaScript values are encoded as follows.                               *)
(*   - An object used as a map (roles, attributes, roleInfo, ...) is a     *)
(*     sequence of [k |-> key, v |-> value] in insertion order, which is   *)
(*     the order Object.keys / Object.entries / JSON.stringify use.        *)
(*   - An optional field is Undefined (<<>>) or Def(x) (<<x>>).            *)
(*   - A string is a TLA+ string; the string functions the code uses       *)
(*     (cleanText, toLowerCase, includes, ===) are tables over the texts   *)
(*     that occur in the modelled documents.                               *)
(***************************************************************************)
EXTENDS Naturals, Sequences, FiniteSets, TLC

(***************************************************************************)
(* Bounds of the model.                                                    *)
(***************************************************************************)
\* longest parentRoles list of a roleInfo entry
MaxParents == 2
\* most role blocks of the primary document
MaxRoleBlocks == 2
\* most state/property blocks of the primary document
MaxAttrBlocks == 2
\* number of pipeline runs over the same documents
MaxRuns == 2
\* deepest buildAllProps recursion the model follows
MaxDepth == 6

\* rows of a characteristics table
MaxRows == 2
\* most sibling blocks of one kind where blocks repeat or lack an id
MaxSiblings == 3
\* the names of an ancestry chain that the model keeps
MaxChain == 3

(***************************************************************************)
(* Optional values, sequences, ordered maps.                               *)
(***************************************************************************)
Undefined == <<>>

Def(x) == <<x>>

IsDef(o) == o # Undefined

Val(o) == o[1]

\* `o || d`
OrElse(o, d) == IF IsDef(o) THEN Val(o) ELSE d

Range(s) == {s[i] : i \in 1..Len(s)}

NoDup(s) == \A i, j \in 1..Len(s) : s[i] = s[j] => i = j

SeqsUpTo(S, n) == UNION {[1..k -> S] : k \in 0..n}

MapKeys(m) == [i \in 1..Len(m) |-> m[i].k]

MapHas(m, key) == \E i \in 1..Len(m) : m[i].k = key

MapGet(m, key) == (CHOOSE i \in 1..Len(m) : m[i].k = key)

MapVal(m, key) == m[MapGet(m, key)].v

\* an assignment that moves an existing key to the end
MapSetMovesLast(m, key, value) ==
  Append(SelectSeq(m, LAMBDA e : e.k # key), [k |-> key, v |-> value])

\* `m[key] = value`: a new key goes last, an existing key keeps its place
MapSet(m, key, value) ==
  IF MapHas(m, key)
  THEN [m EXCEPT ![MapGet(m, key)] = [k |-> key, v |-> value]]
  ELSE Append(m, [k |-> key, v |-> value])

(***************************************************************************)
(* Strings.  The documents of the model are built from the texts below;    *)
(* each string function is given by its value on these texts.              *)
(***************************************************************************)
\* cleanText: runs of whitespace become one space, the ends are trimmed
cleanText(text) ==
  CASE text = " True " -> "True"
    [] text = "Is  Abstract:" -> "Is Abstract:"
    [] text = "  " -> ""
    [] OTHER -> text

toLowerCase(s) ==
  CASE s = "Superclass Role:" -> "superclass role:"
    [] s = "Is Abstract:" -> "is abstract:"
    [] s = "Accessible Name Required:" -> "accessible name required:"
    [] s = "Children Presentational:" -> "children presentational:"
    [] s = "Name From:" -> "name from:"
    [] s = "Related Concepts:" -> "related concepts:"
    [] s = "Note:" -> "note:"
    [] s = "Used in Roles:" -> "used in roles:"
    [] s = "Applicable to:" -> "applicable to:"
    [] s = "Value:" -> "value:"
    [] s = "Default:" -> "default:"
    [] s = "Default value:" -> "default value:"
    [] s = "True" -> "true"
    [] s = "TRUE" -> "true"
    [] s = "False" -> "false"
    [] s = "True (see note)" -> "true (see note)"
    [] s = "All elements of the base markup" -> "all elements of the base markup"
    [] s = "Any element" -> "any element"
    [] s = "Roles; all elements allowed" -> "roles; all elements allowed"
    [] s = "HTML Element Role Mappings" -> "html element role mappings"
    [] s = "Attribute Mappings" -> "attribute mappings"
    [] s = "ARIA Role Mapping" -> "aria role mapping"
    [] s = "Subclass Roles:" -> "subclass roles:"
    [] s = "Required Context Role:" -> "required context role:"
    [] s = "Required Owned Elements:" -> "required owned elements:"
    [] s = "Required States and Properties:" -> "required states and properties:"
    [] s = "Supported States and Properties:" -> "supported states and properties:"
    [] s = "Inherited States and Properties:" -> "inherited states and properties:"
    [] s = "Prohibited States and Properties:" -> "prohibited states and properties:"
    [] s = "Implicit Value for Role:" -> "implicit value for role:"
    [] s = "Superclass and Subclass Roles:" -> "superclass and subclass roles:"
    [] s = "Required Context Role (Required Owned Elements):" -> "required context role (required owned elements):"
    [] s = "Supported States; Prohibited States:" -> "supported states; prohibited states:"
    [] s = "Inherited States and Supported Properties:" -> "inherited states and supported properties:"
    [] s = "Name From (Accessible Name Required):" -> "name from (accessible name required):"
    [] s = "Is Abstract; Implicit Value:" -> "is abstract; implicit value:"
    [] OTHER -> s

\* The phrases the code searches for that occur in the lower-case text s.
Occurring(s) ==
  CASE s = "superclass role:" -> {"superclass"}
    [] s = "is abstract:" -> {"is abstract"}
    [] s = "accessible name required:" -> {"accessible name required"}
    [] s = "children presentational:" -> {"children presentational"}
    [] s = "name from:" -> {"name from"}
    [] s = "related concepts:" -> {"related concept"}
    [] s = "used in roles:" -> {"used in role"}
    [] s = "applicable to:" -> {"applicable to"}
    [] s = "value:" -> {"value"}
    [] s = "default:" -> {"default"}
    [] s = "default value:" -> {"default", "value"}
    [] s = "all elements of the base markup" -> {"all elements"}
    [] s = "roles; all elements allowed" -> {"all elements"}
    [] s = "html element role mappings" -> {"html element", "role mapping"}
    [] s = "aria role mapping" -> {"role mapping"}
    [] s = "navigation" -> {"nav", "navigation"}
    [] s = "subclass roles:" -> {"subclass"}
    [] s = "required context role:" -> {"required context"}
    [] s = "required owned elements:" -> {"required owned"}
    [] s = "required states and properties:" -> {"required state"}
    [] s = "supported states and properties:" -> {"supported state"}
    [] s = "inherited states and properties:" -> {"inherited state"}
    [] s = "prohibited states and properties:" -> {"prohibited state"}
    [] s = "implicit value for role:" -> {"implicit value"}
    [] s = "superclass and subclass roles:" -> {"superclass", "subclass"}
    [] s = "required context role (required owned elements):" -> {"required context", "required owned"}
    [] s = "supported states; prohibited states:" -> {"supported state", "prohibited state"}
    [] s = "inherited states and supported properties:" -> {"inherited state", "supported properties"}
    [] s = "name from (accessible name required):" -> {"name from", "accessible name required"}
    [] s = "is abstract; implicit value:" -> {"is abstract", "implicit value"}
    [] OTHER -> {}

\* s.includes(phrase)
includes(s, phrase) == phrase \in Occurring(s)

\* value.split(/[,\s]+/).map(s => s.trim()).filter(Boolean)
SplitTokens(value) ==
  CASE value = "" -> <<>>
    [] value = "contents, author" -> <<"contents", "author">>
    [] value = "command button aria-checked" -> <<"command", "button", "aria-checked">>
    [] value = "aria-live: assertive" -> <<"aria-live:", "assertive">>
    [] OTHER -> <<value>>

\* value.match(/([a-z-]+)\s*:\s*([^;,]+)/gi), each match split at ':'
ImplicitPairs(value) ==
  CASE value = "aria-live: assertive" -> <<[prop |-> "aria-live", val |-> "assertive"]>>
    [] OTHER -> <<>>

(***************************************************************************)
(* Documents.  A parsed document is what the cheerio selectors of the code *)
(* see of it: the blocks in document order, each with its id attribute,    *)
(* its description text and the rows of its characteristics table; a row   *)
(* is its th text and its td cell; a cell is its text and the texts of     *)
(* the reference elements (rref, sref, pref, a, code) nested in it.        *)
(***************************************************************************)
Cell(text, els) == [text |-> text, els |-> els]

El(tag, text) == [tag |-> tag, text |-> text]

Row(th, td) == [th |-> th, td |-> td]

\* $value.find(tags).map((_, el) => cleanText($(el).text())).get().filter(Boolean)
FindTexts(td, tags) ==
  LET hit == SelectSeq(td.els, LAMBDA e : e.tag \in tags)
      txt == [i \in 1..Len(hit) |-> cleanText(hit[i].text)]
  IN SelectSeq(txt, LAMBDA t : t # "")

\* `!id`: the attribute is missing or empty
NoId(id) == ~IsDef(id) \/ Val(id) = ""

(***************************************************************************)
(* parseRoles                                                              *)
(***************************************************************************)
NewRole(id, description) ==
  [name |-> id,
   description |-> cleanText(description),
   isAbstract |-> FALSE,
   superclassRoles |-> <<>>,
   subclassRoles |-> <<>>,
   relatedConcepts |-> <<>>,
   requiredContextRole |-> <<>>,
   requiredOwnedElements |-> <<>>,
   requiredStates |-> <<>>,
   supportedStates |-> <<>>,
   inheritedStates |-> <<>>,
   prohibitedStates |-> <<>>,
   nameFrom |-> <<>>,
   accessibleNameRequired |-> FALSE,
   childrenPresentational |-> FALSE,
   implicitValueForRole |-> <<>>,
   \* fields main and categorizeRoles add later
   parentRoles |-> Undefined,
   localProps |-> Undefined,
   allProps |-> Undefined,
   category |-> Undefined]

RECURSIVE SetPairs(_, _)
SetPairs(m, pairs) ==
  IF pairs = <<>> THEN m
  ELSE SetPairs(MapSet(m, Head(pairs).prop, Head(pairs).val), Tail(pairs))

\* value === 'true', without toLowerCase
IsTrueCellCaseSensitive(value) == value = "true"

\* value.toLowerCase() === 'true'
IsTrueCell(value) == toLowerCase(value) = "true"

RoleRefTags == {"rref", "a"}

ConceptTags == {"a", "code"}

AttrRefTags == {"sref", "pref", "a"}

\* the chain with `if` in place of each `else if`: every rule that matches
\* the header assigns its field
RoleRowEveryMatch(role, row) ==
  LET header == toLowerCase(cleanText(row.th))
      value == cleanText(row.td.text)
      r1 == IF includes(header, "superclass")
            THEN [role EXCEPT !.superclassRoles = FindTexts(row.td, RoleRefTags)] ELSE role
      r2 == IF includes(header, "subclass")
            THEN [r1 EXCEPT !.subclassRoles = FindTexts(row.td, RoleRefTags)] ELSE r1
      r3 == IF includes(header, "related concept")
            THEN [r2 EXCEPT !.relatedConcepts = FindTexts(row.td, ConceptTags)] ELSE r2
      r4 == IF includes(header, "required context")
            THEN [r3 EXCEPT !.requiredContextRole = FindTexts(row.td, RoleRefTags)] ELSE r3
      r5 == IF includes(header, "required owned") \/ includes(header, "required children")
            THEN [r4 EXCEPT !.requiredOwnedElements = FindTexts(row.td, RoleRefTags)] ELSE r4
      r6 == IF includes(header, "required state") \/ includes(header, "required properties")
            THEN [r5 EXCEPT !.requiredStates = FindTexts(row.td, AttrRefTags)] ELSE r5
      r7 == IF includes(header, "supported state") \/ includes(header, "supported properties")
            THEN [r6 EXCEPT !.supportedStates = FindTexts(row.td, AttrRefTags)] ELSE r6
      r8 == IF includes(header, "inherited state")
            THEN [r7 EXCEPT !.inheritedStates = FindTexts(row.td, AttrRefTags)] ELSE r7
      r9 == IF includes(header, "prohibited state") \/ includes(header, "prohibited properties")
            THEN [r8 EXCEPT !.prohibitedStates = FindTexts(row.td, AttrRefTags)] ELSE r8
      r10 == IF includes(header, "name from")
             THEN [r9 EXCEPT !.nameFrom = SplitTokens(value)] ELSE r9
      r11 == IF includes(header, "accessible name required")
             THEN [r10 EXCEPT !.accessibleNameRequired = IsTrueCell(value)] ELSE r10
      r12 == IF includes(header, "children are presentational")
                \/ includes(header, "children presentational")
             THEN [r11 EXCEPT !.childrenPresentational = IsTrueCell(value)] ELSE r11
      r13 == IF includes(header, "is abstract")
             THEN [r12 EXCEPT !.isAbstract = IsTrueCell(value)] ELSE r12
  IN IF includes(header, "implicit value")
     THEN [r13 EXCEPT !.implicitValueForRole = SetPairs(@, ImplicitPairs(value))]
     ELSE r13

\* one row of a role's characteristics table: the if / else-if chain
RoleRow(role, row) ==
  LET header == toLowerCase(cleanText(row.th))
      value == cleanText(row.td.text)
  IN IF includes(header, "superclass")
       THEN [role EXCEPT !.superclassRoles = FindTexts(row.td, RoleRefTags)]
     ELSE IF includes(header, "subclass")
       THEN [role EXCEPT !.subclassRoles = FindTexts(row.td, RoleRefTags)]
     ELSE IF includes(header, "related concept")
       THEN [role EXCEPT !.relatedConcepts = FindTexts(row.td, ConceptTags)]
     ELSE IF includes(header, "required context")
       THEN [role EXCEPT !.requiredContextRole = FindTexts(row.td, RoleRefTags)]
     ELSE IF includes(header, "required owned") \/ includes(header, "required children")
       THEN [role EXCEPT !.requiredOwnedElements = FindTexts(row.td, RoleRefTags)]
     ELSE IF includes(header, "required state") \/ includes(header, "required properties")
       THEN [role EXCEPT !.requiredStates = FindTexts(row.td, AttrRefTags)]
     ELSE IF includes(header, "supported state") \/ includes(header, "supported properties")
       THEN [role EXCEPT !.supportedStates = FindTexts(row.td, AttrRefTags)]
     ELSE IF includes(header, "inherited state")
       THEN [role EXCEPT !.inheritedStates = FindTexts(row.td, AttrRefTags)]
     ELSE IF includes(header, "prohibited state") \/ includes(header, "prohibited properties")
       THEN [role EXCEPT !.prohibitedStates = FindTexts(row.td, AttrRefTags)]
     ELSE IF includes(header, "name from")
       THEN [role EXCEPT !.nameFrom = SplitTokens(value)]
     ELSE IF includes(header, "accessible name required")
       THEN [role EXCEPT !.accessibleNameRequired = IsTrueCell(value)]
     ELSE IF includes(header, "children are presentational")
             \/ includes(header, "children presentational")
       THEN [role EXCEPT !.childrenPresentational = IsTrueCell(value)]
     ELSE IF includes(header, "is abstract")
       THEN [role EXCEPT !.isAbstract = IsTrueCell(value)]
     ELSE IF includes(header, "implicit value")
       THEN [role EXCEPT !.implicitValueForRole = SetPairs(@, ImplicitPairs(value))]
     ELSE role

RECURSIVE RoleRows(_, _)
RoleRows(role, rows) ==
  IF rows = <<>> THEN role ELSE RoleRows(RoleRow(role, Head(rows)), Tail(rows))

\* the scan with `break` in place of `return`: it ends at a block without id
RECURSIVE RoleBlocksStopAtNoId(_, _)
RoleBlocksStopAtNoId(roles, blocks) ==
  IF blocks = <<>> THEN roles
  ELSE LET b == Head(blocks)
       IN IF NoId(b.id) THEN roles
          ELSE RoleBlocksStopAtNoId(
                 MapSet(roles, Val(b.id), RoleRows(NewRole(Val(b.id), b.description), b.rows)),
                 Tail(blocks))

RECURSIVE RoleBlocks(_, _)
RoleBlocks(roles, blocks) ==
  IF blocks = <<>> THEN roles
  ELSE LET b == Head(blocks)
       IN IF NoId(b.id) THEN RoleBlocks(roles, Tail(blocks))
          ELSE RoleBlocks(
                 MapSet(roles, Val(b.id), RoleRows(NewRole(Val(b.id), b.description), b.rows)),
                 Tail(blocks))

parseRoles(doc) == RoleBlocks(<<>>, doc.roleBlocks)

(***************************************************************************)
(* parseStatesAndProperties                                                *)
(***************************************************************************)
\* the record with `type: 'property'` whatever the class of the block
NewAttrAlwaysProperty(id, isState, description) ==
  [name |-> id,
   type |-> "property",
   description |-> cleanText(description),
   valueType |-> "",
   defaultValue |-> "",
   applicableRoles |-> <<>>,
   inheritedIntoRoles |-> <<>>,
   relatedConcepts |-> <<>>,
   values |-> <<>>,
   isGlobal |-> FALSE]

NewAttr(id, isState, description) ==
  [name |-> id,
   type |-> IF isState THEN "state" ELSE "property",
   description |-> cleanText(description),
   valueType |-> "",
   defaultValue |-> "",
   applicableRoles |-> <<>>,
   inheritedIntoRoles |-> <<>>,
   relatedConcepts |-> <<>>,
   values |-> <<>>,
   isGlobal |-> FALSE]

\* value.match(/token(?:s)?\s*:?\s*([^|]+(?:\|[^|]+)*)/i), split at '|'
EnumTokens(value) ==
  CASE value = "token: true | false" -> Def(<<"true", "false">>)
    [] OTHER -> Undefined

\* value.toLowerCase().includes('all elements')
SignalsAllElements(value) == includes(toLowerCase(value), "all elements")

\* the chain with the rule for 'default' before the rule for 'value'
AttrRowDefaultFirst(attr, row) ==
  LET header == toLowerCase(cleanText(row.th))
      value == cleanText(row.td.text)
  IN IF includes(header, "default")
       THEN [attr EXCEPT !.defaultValue = value]
     ELSE IF includes(header, "value type") \/ includes(header, "value")
       THEN [attr EXCEPT !.valueType = value,
                         !.values = OrElse(EnumTokens(value), @)]
     ELSE IF includes(header, "used in role") \/ includes(header, "applicable to")
       THEN [attr EXCEPT !.applicableRoles = FindTexts(row.td, RoleRefTags),
                         !.isGlobal = IF SignalsAllElements(value) THEN TRUE ELSE @]
     ELSE IF includes(header, "inherited into")
       THEN [attr EXCEPT !.inheritedIntoRoles = FindTexts(row.td, RoleRefTags)]
     ELSE IF includes(header, "related concept")
       THEN [attr EXCEPT !.relatedConcepts = FindTexts(row.td, ConceptTags)]
     ELSE attr

\* one row of an attribute's characteristics table
AttrRow(attr, row) ==
  LET header == toLowerCase(cleanText(row.th))
      value == cleanText(row.td.text)
  IN IF includes(header, "value type") \/ includes(header, "value")
       THEN [attr EXCEPT !.valueType = value,
                         !.values = OrElse(EnumTokens(value), @)]
     ELSE IF includes(header, "default")
       THEN [attr EXCEPT !.defaultValue = value]
     ELSE IF includes(header, "used in role") \/ includes(header, "applicable to")
       THEN [attr EXCEPT !.applicableRoles = FindTexts(row.td, RoleRefTags),
                         !.isGlobal = IF SignalsAllElements(value) THEN TRUE ELSE @]
     ELSE IF includes(header, "inherited into")
       THEN [attr EXCEPT !.inheritedIntoRoles = FindTexts(row.td, RoleRefTags)]
     ELSE IF includes(header, "related concept")
       THEN [attr EXCEPT !.relatedConcepts = FindTexts(row.td, ConceptTags)]
     ELSE attr

RECURSIVE AttrRows(_, _)
AttrRows(attr, rows) ==
  IF rows = <<>> THEN attr ELSE AttrRows(AttrRow(attr, Head(rows)), Tail(rows))

RECURSIVE AttrBlocks(_, _)
AttrBlocks(attributes, blocks) ==
  IF blocks = <<>> THEN attributes
  ELSE LET b == Head(blocks)
       IN IF NoId(b.id) THEN AttrBlocks(attributes, Tail(blocks))
          ELSE AttrBlocks(
                 MapSet(attributes, Val(b.id),
                        AttrRows(NewAttr(Val(b.id), b.isState, b.description), b.rows)),
                 Tail(blocks))

parseStatesAndProperties(doc) == AttrBlocks(<<>>, doc.attrBlocks)

\* main: the states / properties split of the attributes, in key order
OfType(attributes, type) == SelectSeq(attributes, LAMBDA e : e.v.type = type)

(***************************************************************************)
(* parseRoleInfoJS.  The roleInfo.js file is missing, or its text does not *)
(* match /var roleInfo = (\{[\s\S]*\});?\s*$/, or evaluating the matched   *)
(* text throws, or it evaluates to the table.  A table entry is            *)
(* [parentRoles, localprops, allprops], each optional; a property entry is *)
(* [name, required].                                                       *)
(***************************************************************************)
Prop(name, required) == [name |-> name, required |-> required]

Entry(parentRoles, localprops, allprops) ==
  [parentRoles |-> parentRoles, localprops |-> localprops, allprops |-> allprops]

\* a built-in table returned where the code returns {}
parseRoleInfoJSFallback(file) ==
  IF ~IsDef(file) \/ Val(file).kind \in {"nomatch", "throws"}
  THEN <<[k |-> "switch", v |-> Entry(Undefined, Def(<<Prop("aria-checked", TRUE)>>), Undefined)]>>
  ELSE Val(file).table

parseRoleInfoJS(file) ==
  IF ~IsDef(file) THEN <<>>
  ELSE IF Val(file).kind = "nomatch" THEN <<>>
  ELSE IF Val(file).kind = "throws" THEN <<>>
  ELSE Val(file).table

(***************************************************************************)
(* buildAllProps, as the steps of its recursion.  A frame of `stack` is    *)
(* one activation: its roleName, its local `props`, and the index `i` of   *)
(* the parent the for loop is at (0 before the body has run).  `visited`   *)
(* is the one Set that every activation of a top-level call shares.        *)
(* `array` says which array `props` is: "copy" for a new one, or the name  *)
(* of the list of the table entry that it is; a push to props is a push to *)
(* that array.                                                             *)
(***************************************************************************)
Frame(roleName) == [roleName |-> roleName, props |-> <<>>, array |-> "copy", i |-> 0]

\* the guard left out
IsVisitedNever(vis, roleName) == FALSE

\* one Set kept from a top-level call to the next
DefaultVisitedShared(last) == last

\* the default argument `visited = new Set()` of a top-level call; `last` is
\* the Set of the top-level call before it
DefaultVisited(last) == {}

\* visited.has(roleName)
IsVisited(vis, roleName) == roleName \in vis

\* role.allprops?.length in place of role.allprops
HasAllpropsNonEmpty(role) == IsDef(role.allprops) /\ Val(role.allprops) # <<>>

\* a truthy role.allprops (an array, empty or not)
HasAllprops(role) == IsDef(role.allprops)

\* role.allprops ? [...role.allprops] : (role.localprops ? [...role.localprops] : [])
OwnProps(role) ==
  IF HasAllprops(role) THEN Val(role.allprops)
  ELSE IF IsDef(role.localprops) THEN Val(role.localprops)
  ELSE <<>>

\* props without the spread: role.allprops || role.localprops || []
PropsArrayOfEntry(role) ==
  IF HasAllprops(role) THEN "allprops"
  ELSE IF IsDef(role.localprops) THEN "localprops"
  ELSE "copy"

\* [...role.allprops], [...role.localprops] and [] are all new arrays
PropsArray(role) == "copy"

\* the table after a push to the props of an activation for roleName
PushedThrough(table, roleName, array, props) ==
  IF array = "copy" THEN table
  ELSE [table EXCEPT ![MapGet(table, roleName)].v[array] = Def(props)]

\* only role.parentRoles[0] followed
LoopParentsFirstOnly(role) ==
  IF ~IsDef(role.allprops) /\ IsDef(role.parentRoles) /\ Val(role.parentRoles) # <<>>
  THEN <<Val(role.parentRoles)[1]>>
  ELSE <<>>

\* !role.allprops && role.parentRoles: the list the for loop runs over
LoopParents(role) ==
  IF ~HasAllprops(role) /\ IsDef(role.parentRoles) THEN Val(role.parentRoles) ELSE <<>>

\* props.find(p => p.name === parentProp.name)
FindByName(props, name) == \E k \in 1..Len(props) : props[k].name = name

\* every parentProp pushed, found or not
AddParentPropsEvery(props, parentProps) == props \o parentProps

\* for (const parentProp of parentProps) if (!props.find(...)) props.push(parentProp)
RECURSIVE AddParentProps(_, _)
AddParentProps(props, parentProps) ==
  IF parentProps = <<>> THEN props
  ELSE AddParentProps(
         IF FindByName(props, Head(parentProps).name) THEN props
         ELSE Append(props, Head(parentProps)),
         Tail(parentProps))

\* the merge that also takes the superclasses from the table
MergeInfoSuperclass(role, info) ==
  [role EXCEPT !.parentRoles = Def(OrElse(info.parentRoles, <<>>)),
               !.localProps = Def(OrElse(info.localprops, <<>>)),
               !.superclassRoles = OrElse(info.parentRoles, <<>>)]

\* main's merge of one roleInfo entry into roles[roleName], before allProps
MergeInfo(role, info) ==
  [role EXCEPT !.parentRoles = Def(OrElse(info.parentRoles, <<>>)),
               !.localProps = Def(OrElse(info.localprops, <<>>))]

(***************************************************************************)
(* categorizeRoles                                                         *)
(***************************************************************************)
abstractRoleNames ==
  {"roletype", "structure", "widget", "window", "input", "range", "command",
   "composite", "section", "sectionhead", "select", "landmark"}

widgetRoleNames ==
  {"button", "checkbox", "gridcell", "link", "menuitem", "menuitemcheckbox",
   "menuitemradio", "option", "progressbar", "radio", "scrollbar", "searchbox",
   "separator", "slider", "spinbutton", "switch", "tab", "tabpanel", "textbox",
   "treeitem"}

compositeRoleNames ==
  {"combobox", "grid", "listbox", "menu", "menubar", "radiogroup", "tablist",
   "tree", "treegrid"}

landmarkRoleNames ==
  {"banner", "complementary", "contentinfo", "form", "main", "navigation",
   "region", "search"}

liveRegionRoleNames == {"alert", "log", "marquee", "status", "timer"}

windowRoleNames == {"alertdialog", "dialog"}

CategoryNames ==
  {"abstract", "widget", "document", "landmark", "liveRegion", "window", "composite"}

EmptyCategories ==
  [abstract |-> <<>>, widget |-> <<>>, document |-> <<>>, landmark |-> <<>>,
   liveRegion |-> <<>>, window |-> <<>>, composite |-> <<>>]

\* the static lists tested before the isAbstract flag
CategoryOfListsFirst(role, roleName) ==
  IF roleName \in abstractRoleNames THEN "abstract"
  ELSE IF roleName \in landmarkRoleNames THEN "landmark"
  ELSE IF roleName \in liveRegionRoleNames THEN "liveRegion"
  ELSE IF roleName \in windowRoleNames THEN "window"
  ELSE IF roleName \in compositeRoleNames THEN "composite"
  ELSE IF roleName \in widgetRoleNames THEN "widget"
  ELSE IF role.isAbstract THEN "abstract"
  ELSE "document"

\* the if / else-if chain of the forEach body
CategoryOf(role, roleName) ==
  IF role.isAbstract \/ roleName \in abstractRoleNames THEN "abstract"
  ELSE IF roleName \in landmarkRoleNames THEN "landmark"
  ELSE IF roleName \in liveRegionRoleNames THEN "liveRegion"
  ELSE IF roleName \in windowRoleNames THEN "window"
  ELSE IF roleName \in compositeRoleNames THEN "composite"
  ELSE IF roleName \in widgetRoleNames THEN "widget"
  ELSE "document"

\* the abstract branch not closed by `else`: an abstract role is pushed to
\* abstract and then to the list the rest of the chain picks
CategorizedFallThrough(acc, roleName) ==
  LET idx == MapGet(acc.roles, roleName)
      role == acc.roles[idx].v
      c == CategoryOf([role EXCEPT !.isAbstract = FALSE], roleName)
  IN IF role.isAbstract /\ c # "abstract"
     THEN [roles |-> [acc.roles EXCEPT ![idx].v.category = Def(c)],
           categories |-> [acc.categories EXCEPT !.abstract = Append(@, roleName),
                                                 ![c] = Append(@, roleName)]]
     ELSE [roles |-> [acc.roles EXCEPT ![idx].v.category = Def(c)],
           categories |-> [acc.categories EXCEPT ![c] = Append(@, roleName)]]

\* categories[c].push(roleName); role.category = c
Categorized(acc, roleName) ==
  LET idx == MapGet(acc.roles, roleName)
      c == CategoryOf(acc.roles[idx].v, roleName)
  IN [roles |-> [acc.roles EXCEPT ![idx].v.category = Def(c)],
      categories |-> [acc.categories EXCEPT ![c] = Append(@, roleName)]]

RECURSIVE CategorizeKeys(_, _)
CategorizeKeys(acc, keys) ==
  IF keys = <<>> THEN acc
  ELSE CategorizeKeys(Categorized(acc, Head(keys)), Tail(keys))

\* the categories it returns and the roles it has set the category of
categorizeRoles(roles) ==
  CategorizeKeys([roles |-> roles, categories |-> EmptyCategories], MapKeys(roles))

(***************************************************************************)
(* parseAccName, parseHtmlAam, parseDpubAria, parseGraphicsAria            *)
(***************************************************************************)
parseAccName(file) ==
  IF ~IsDef(file) THEN Undefined
  ELSE Def([title |-> IF cleanText(Val(file).title) # "" THEN cleanText(Val(file).title)
                      ELSE "Accessible Name and Description Computation",
            abstract |-> cleanText(Val(file).abstract),
            specUrl |-> "https://w3c.github.io/accname/"])

\* the row that leaves an element's earlier mapping as it is
HtmlRowFirstWins(mappings, cells) ==
  IF Len(cells) >= 2
  THEN LET element == cleanText(cells[1])
           role == cleanText(cells[2])
       IN IF element # "" /\ role # "" /\ ~MapHas(mappings, element)
          THEN MapSet(mappings, element, [element |-> element, implicitRole |-> role])
          ELSE mappings
  ELSE mappings

\* a row of a mapping table is the texts of its td / th cells
HtmlRow(mappings, cells) ==
  IF Len(cells) >= 2
  THEN LET element == cleanText(cells[1])
           role == cleanText(cells[2])
       IN IF element # "" /\ role # ""
          THEN MapSet(mappings, element, [element |-> element, implicitRole |-> role])
          ELSE mappings
  ELSE mappings

RECURSIVE HtmlRows(_, _)
HtmlRows(mappings, rows) ==
  IF rows = <<>> THEN mappings ELSE HtmlRows(HtmlRow(mappings, Head(rows)), Tail(rows))

RECURSIVE HtmlTables(_, _)
HtmlTables(mappings, tables) ==
  IF tables = <<>> THEN mappings
  ELSE LET t == Head(tables)
           caption == toLowerCase(cleanText(t.caption))
       IN IF includes(caption, "html element") \/ includes(caption, "role mapping")
          THEN HtmlTables(HtmlRows(mappings, t.rows), Tail(tables))
          ELSE HtmlTables(mappings, Tail(tables))

parseHtmlAam(file) == IF ~IsDef(file) THEN <<>> ELSE HtmlTables(<<>>, Val(file))

RECURSIVE ModuleBlocks(_, _, _)
ModuleBlocks(roles, blocks, module) ==
  IF blocks = <<>> THEN roles
  ELSE LET b == Head(blocks)
       IN IF NoId(b.id) THEN ModuleBlocks(roles, Tail(blocks), module)
          ELSE ModuleBlocks(
                 MapSet(roles, Val(b.id),
                        [name |-> Val(b.id), module |-> module,
                         description |-> cleanText(b.description)]),
                 Tail(blocks), module)

parseDpubAria(file) ==
  IF ~IsDef(file) THEN <<>> ELSE ModuleBlocks(<<>>, Val(file), "dpub-aria")

parseGraphicsAria(file) ==
  IF ~IsDef(file) THEN <<>> ELSE ModuleBlocks(<<>>, Val(file), "graphics-aria")

(***************************************************************************)
(* The dataset main assembles.                                             *)
(***************************************************************************)
\* the place of an attribute name in the order Array.prototype.sort() uses
SortRank(name) ==
  CASE name = "alert" -> 1
    [] name = "aria-atomic" -> 2
    [] name = "aria-checked" -> 3
    [] name = "aria-label" -> 4
    [] name = "banner" -> 5
    [] name = "button" -> 6
    [] name = "navigation" -> 7
    [] name = "status" -> 8
    [] name = "switch" -> 9
    [] OTHER -> 10

RECURSIVE Insert(_, _)
Insert(sorted, name) ==
  IF sorted = <<>> THEN <<name>>
  ELSE IF SortRank(name) < SortRank(Head(sorted)) THEN <<name>> \o sorted
  ELSE <<Head(sorted)>> \o Insert(Tail(sorted), name)

RECURSIVE Sorted(_)
Sorted(names) ==
  IF names = <<>> THEN <<>> ELSE Insert(Sorted(Tail(names)), Head(names))

\* Object.keys(statesAndProperties).filter(name => ...isGlobal).sort()
GlobalIndex(attributes) ==
  Sorted(MapKeys(SelectSeq(attributes, LAMBDA e : e.v.isGlobal)))

\* the version taken from the clock as well
MetadataStamped(now) ==
  [version |-> now,
   generatedAt |-> now,
   sourceUrl |-> "https://github.com/w3c/aria",
   specUrl |-> "https://w3c.github.io/aria/"]

Metadata(now) ==
  [version |-> "1.3",
   generatedAt |-> now,
   sourceUrl |-> "https://github.com/w3c/aria",
   specUrl |-> "https://w3c.github.io/aria/"]

ServerInfo ==
  [name |-> "aria-mcp",
   version |-> "1.0.0",
   description |-> "ARIA specification MCP server for accessibility professionals and AI agents"]

(***************************************************************************)
(* The state of a run.                                                     *)
(***************************************************************************)
VARIABLES
  files,                \* the source documents on disk (never written)
  output,               \* data/aria-data.json: Undefined until written
  pc,                   \* where main is
  roles,                \* main: const roles
  statesAndProperties,  \* main: const statesAndProperties
  states,               \* main: const states
  properties,           \* main: const properties
  roleInfo,             \* main: const roleInfo
  mi,                   \* the entry of Object.entries(roleInfo) the merge is at
  stack,                \* the activations of buildAllProps, outermost first
  visited,              \* the visited Set of the current top-level call
  expanded,             \* the role names added to visited, in order
  calls,                \* the role names buildAllProps was called with, in order
  categories,           \* main: const categories
  accname,              \* main: const accname
  htmlMappings,         \* main: const htmlMappings
  dpubRoles,            \* main: const dpubRoles
  graphicsRoles,        \* main: const graphicsRoles
  run,                  \* the number of the current run of the script
  prevOutput,           \* what the previous run wrote
  data,                 \* the server's `import data`: Undefined until it starts
  response,             \* the names the last tool call listed
  walk                  \* get-role-hierarchy while it runs: roleName, ancestors,
                        \* current, and whether the loop has made an odd number of turns

vars ==
  <<files, output, pc, roles, statesAndProperties, states, properties, roleInfo,
    mi, stack, visited, expanded, calls, categories, accname, htmlMappings,
    dpubRoles, graphicsRoles, run, prevOutput, data, response, walk>>

\* the variables of the server that imports the dataset
consumer == <<data, response, walk>>

\* a handler runs to its return before another call is taken up
Idle == walk = Undefined

\* the variables of main, and so of one process
locals ==
  <<roles, statesAndProperties, states, properties, roleInfo, mi, stack, visited,
    expanded, calls, categories, accname, htmlMappings, dpubRoles, graphicsRoles>>

resolver == <<stack, visited, expanded, calls>>

\* a process starts with nothing parsed
Fresh ==
  /\ pc = "start"
  /\ roles = <<>>
  /\ statesAndProperties = <<>>
  /\ states = <<>>
  /\ properties = <<>>
  /\ roleInfo = <<>>
  /\ mi = 1
  /\ stack = <<>>
  /\ visited = {}
  /\ expanded = <<>>
  /\ calls = <<>>
  /\ categories = EmptyCategories
  /\ accname = Undefined
  /\ htmlMappings = <<>>
  /\ dpubRoles = <<>>
  /\ graphicsRoles = <<>>

(***************************************************************************)
(* main, one action per stage.                                             *)
(***************************************************************************)
\* fs.existsSync(path) of a source document
existsSync(slot) == IsDef(files[slot])

\* a read that is not guarded by existsSync: it throws for a missing file too
ReadThrowsUnguarded(slot) == ~existsSync(slot) \/ slot \in files.unreadable

\* fs.readFileSync(path, 'utf-8') throws: the path exists and cannot be read
\* (a directory, a file without read permission)
ReadThrows(slot) == existsSync(slot) /\ slot \in files.unreadable

\* how the process ends: process.exit(1) at line 445, the return of main at
\* line 541, or the rejection of main() handed to console.error at line 543,
\* after which the process ends with status 0
ExitStatus == IF pc = "exit1" THEN 1 ELSE 0

Ended == pc \in {"exit1", "done", "caught"}

\* lines 441-449: the primary document is read, or the process exits with 1;
\* an exception of readFileSync rejects main()
LoadAria ==
  /\ pc = "start"
  /\ pc' = IF ~existsSync("aria") THEN "exit1"
           ELSE IF ReadThrows("aria") THEN "caught"
           ELSE "parseRoles"
  /\ UNCHANGED <<files, output, locals, run, prevOutput, consumer>>

ParseRoles ==
  /\ pc = "parseRoles"
  /\ roles' = parseRoles(Val(files.aria))
  /\ pc' = "parseAttrs"
  /\ UNCHANGED <<files, output, statesAndProperties, states, properties, roleInfo, mi,
                 resolver, categories, accname, htmlMappings, dpubRoles, graphicsRoles,
                 run, prevOutput, consumer>>

ParseStatesAndProperties ==
  /\ pc = "parseAttrs"
  /\ statesAndProperties' = parseStatesAndProperties(Val(files.aria))
  /\ states' = OfType(statesAndProperties', "state")
  /\ properties' = SelectSeq(statesAndProperties', LAMBDA e : e.v.type # "state")
  /\ pc' = "parseRoleInfo"
  /\ UNCHANGED <<files, output, roles, roleInfo, mi, resolver, categories, accname,
                 htmlMappings, dpubRoles, graphicsRoles, run, prevOutput, consumer>>

ParseRoleInfo ==
  /\ pc = "parseRoleInfo"
  /\ IF ReadThrows("roleInfo")
     THEN /\ pc' = "caught"
          /\ UNCHANGED <<roleInfo, mi>>
     ELSE /\ roleInfo' = parseRoleInfoJS(files.roleInfo)
          /\ mi' = 1
          /\ pc' = "merge"
  /\ UNCHANGED <<files, output, roles, statesAndProperties, states, properties,
                 resolver, categories, accname, htmlMappings, dpubRoles, graphicsRoles,
                 run, prevOutput, consumer>>

\* lines 477-484: the next entry of Object.entries(roleInfo); for a role of
\* the role map, parentRoles and localProps are set and buildAllProps is
\* called with a new visited Set
MergeEntry ==
  /\ pc = "merge"
  /\ IF mi > Len(roleInfo)
     THEN /\ pc' = "categorize"
          /\ UNCHANGED <<roles, mi, resolver>>
     ELSE LET roleName == roleInfo[mi].k
              info == roleInfo[mi].v
          IN IF MapHas(roles, roleName)
             THEN /\ roles' = [roles EXCEPT ![MapGet(roles, roleName)].v = MergeInfo(@, info)]
                  /\ stack' = <<Frame(roleName)>>
                  /\ visited' = DefaultVisited(visited)
                  /\ expanded' = <<>>
                  /\ calls' = <<roleName>>
                  /\ pc' = "resolve"
                  /\ mi' = mi
             ELSE /\ mi' = mi + 1
                  /\ UNCHANGED <<roles, pc, resolver>>
  /\ UNCHANGED <<files, output, statesAndProperties, states, properties, roleInfo,
                 categories, accname, htmlMappings, dpubRoles, graphicsRoles, run,
                 prevOutput, consumer>>

\* `return value` of the innermost activation: the caller's loop body adds
\* the value to its props (lines 216-221) and moves to its next parent; the
\* outermost activation returns to main, which stores the value (line 482)
Return(value, vis, exp) ==
  /\ visited' = vis
  /\ expanded' = exp
  /\ calls' = calls
  /\ IF Len(stack) = 1
     THEN /\ roles' = [roles EXCEPT ![MapGet(roles, roleInfo[mi].k)].v.allProps = Def(value)]
          /\ stack' = <<>>
          /\ mi' = mi + 1
          /\ pc' = "merge"
          /\ roleInfo' = roleInfo
     ELSE LET c == Len(stack) - 1
              pushed == AddParentProps(stack[c].props, value)
          IN /\ stack' = [SubSeq(stack, 1, c) EXCEPT ![c].props = pushed, ![c].i = @ + 1]
             /\ roleInfo' = PushedThrough(roleInfo, stack[c].roleName, stack[c].array, pushed)
             /\ UNCHANGED <<roles, mi, pc>>

\* lines 203-210: the entry of an activation
ResolveEnter ==
  /\ pc = "resolve"
  /\ stack[Len(stack)].i = 0
  /\ LET d == Len(stack)
         roleName == stack[d].roleName
     IN IF IsVisited(visited, roleName)
        THEN Return(<<>>, visited, expanded)
        ELSE IF ~MapHas(roleInfo, roleName)
        THEN Return(<<>>, visited \cup {roleName}, Append(expanded, roleName))
        ELSE /\ visited' = visited \cup {roleName}
             /\ expanded' = Append(expanded, roleName)
             /\ stack' = [stack EXCEPT ![d].props = OwnProps(MapVal(roleInfo, roleName)),
                                       ![d].array = PropsArray(MapVal(roleInfo, roleName)),
                                       ![d].i = 1]
             /\ UNCHANGED <<roles, mi, pc, calls, roleInfo>>
  /\ UNCHANGED <<files, output, statesAndProperties, states, properties,
                 categories, accname, htmlMappings, dpubRoles, graphicsRoles, run,
                 prevOutput, consumer>>

\* lines 213-215 and 225: the for loop calls buildAllProps for its next
\* parent, or the activation returns its props
ResolveLoop ==
  /\ pc = "resolve"
  /\ stack[Len(stack)].i > 0
  /\ LET d == Len(stack)
         parents == LoopParents(MapVal(roleInfo, stack[d].roleName))
     IN IF stack[d].i <= Len(parents)
        THEN /\ d < MaxDepth
             /\ stack' = Append(stack, Frame(parents[stack[d].i]))
             /\ calls' = Append(calls, parents[stack[d].i])
             /\ UNCHANGED <<roles, mi, pc, visited, expanded, roleInfo>>
        ELSE Return(stack[d].props, visited, expanded)
  /\ UNCHANGED <<files, output, statesAndProperties, states, properties,
                 categories, accname, htmlMappings, dpubRoles, graphicsRoles, run,
                 prevOutput, consumer>>

Categorize ==
  /\ pc = "categorize"
  /\ roles' = categorizeRoles(roles).roles
  /\ categories' = categorizeRoles(roles).categories
  /\ pc' = "parseAccName"
  /\ UNCHANGED <<files, output, statesAndProperties, states, properties, roleInfo, mi,
                 resolver, accname, htmlMappings, dpubRoles, graphicsRoles, run,
                 prevOutput, consumer>>

ParseAccName ==
  /\ pc = "parseAccName"
  /\ IF ReadThrows("accname")
     THEN /\ pc' = "caught"
          /\ UNCHANGED accname
     ELSE /\ accname' = parseAccName(files.accname)
          /\ pc' = "parseHtmlAam"
  /\ UNCHANGED <<files, output, roles, statesAndProperties, states, properties,
                 roleInfo, mi, resolver, categories, htmlMappings, dpubRoles,
                 graphicsRoles, run, prevOutput, consumer>>

ParseHtmlAam ==
  /\ pc = "parseHtmlAam"
  /\ IF ReadThrows("htmlAam")
     THEN /\ pc' = "caught"
          /\ UNCHANGED htmlMappings
     ELSE /\ htmlMappings' = parseHtmlAam(files.htmlAam)
          /\ pc' = "parseDpub"
  /\ UNCHANGED <<files, output, roles, statesAndProperties, states, properties,
                 roleInfo, mi, resolver, categories, accname, dpubRoles, graphicsRoles,
                 run, prevOutput, consumer>>

ParseDpubAria ==
  /\ pc = "parseDpub"
  /\ IF ReadThrows("dpub")
     THEN /\ pc' = "caught"
          /\ UNCHANGED dpubRoles
     ELSE /\ dpubRoles' = parseDpubAria(files.dpub)
          /\ pc' = "parseGraphics"
  /\ UNCHANGED <<files, output, roles, statesAndProperties, states, properties,
                 roleInfo, mi, resolver, categories, accname, htmlMappings,
                 graphicsRoles, run, prevOutput, consumer>>

ParseGraphicsAria ==
  /\ pc = "parseGraphics"
  /\ IF ReadThrows("graphics")
     THEN /\ pc' = "caught"
          /\ UNCHANGED graphicsRoles
     ELSE /\ graphicsRoles' = parseGraphicsAria(files.graphics)
          /\ pc' = "write"
  /\ UNCHANGED <<files, output, roles, statesAndProperties, states, properties,
                 roleInfo, mi, resolver, categories, accname, htmlMappings, dpubRoles,
                 run, prevOutput, consumer>>

\* the dataset with the roles of dpub-aria put among the primary roles
AriaDataMerged(now) ==
  [metadata |-> Metadata(now), roles |-> roles \o dpubRoles, roleCategories |-> categories,
   states |-> states, properties |-> properties,
   globalStatesAndProperties |-> GlobalIndex(statesAndProperties),
   htmlMappings |-> htmlMappings,
   extensions |-> [dpub |-> dpubRoles, graphics |-> graphicsRoles],
   accname |-> accname, serverInfo |-> ServerInfo]

\* the dataset without its accname key when accname is null
AriaDataWithoutNull(now) ==
  IF IsDef(accname)
  THEN [metadata |-> Metadata(now), roles |-> roles, roleCategories |-> categories,
        states |-> states, properties |-> properties,
        globalStatesAndProperties |-> GlobalIndex(statesAndProperties),
        htmlMappings |-> htmlMappings,
        extensions |-> [dpub |-> dpubRoles, graphics |-> graphicsRoles],
        accname |-> accname, serverInfo |-> ServerInfo]
  ELSE [metadata |-> Metadata(now), roles |-> roles, roleCategories |-> categories,
        states |-> states, properties |-> properties,
        globalStatesAndProperties |-> GlobalIndex(statesAndProperties),
        htmlMappings |-> htmlMappings,
        extensions |-> [dpub |-> dpubRoles, graphics |-> graphicsRoles],
        serverInfo |-> ServerInfo]

\* lines 507-532.  JSON.stringify leaves out a field that is undefined, which
\* is what Undefined stands for in a role.
AriaData(now) ==
  [metadata |-> Metadata(now),
   roles |-> roles,
   roleCategories |-> categories,
   states |-> states,
   properties |-> properties,
   globalStatesAndProperties |-> GlobalIndex(statesAndProperties),
   htmlMappings |-> htmlMappings,
   extensions |-> [dpub |-> dpubRoles, graphics |-> graphicsRoles],
   accname |-> accname,
   serverInfo |-> ServerInfo]

\* the instants new Date() can return
Times == 1..MaxRuns

\* lines 506-537: the dataset is assembled and written in one writeFileSync
WriteOutput ==
  /\ pc = "write"
  /\ \E now \in Times : output' = Def(AriaData(now))
  /\ pc' = "done"
  /\ UNCHANGED <<files, locals, run, prevOutput, consumer>>

\* the script is run again over the same documents: a new process, the
\* output file of the run before still on disk
Rerun ==
  /\ Ended
  /\ run < MaxRuns
  /\ run' = run + 1
  /\ prevOutput' = output
  /\ pc' = "start"
  /\ roles' = <<>>
  /\ statesAndProperties' = <<>>
  /\ states' = <<>>
  /\ properties' = <<>>
  /\ roleInfo' = <<>>
  /\ mi' = 1
  /\ stack' = <<>>
  /\ visited' = {}
  /\ expanded' = <<>>
  /\ calls' = <<>>
  /\ categories' = EmptyCategories
  /\ accname' = Undefined
  /\ htmlMappings' = <<>>
  /\ dpubRoles' = <<>>
  /\ graphicsRoles' = <<>>
  /\ UNCHANGED <<files, output, consumer>>

(***************************************************************************)
(* The server's tools (src/README.md): handlers over the imported dataset. *)
(***************************************************************************)
\* import data from '../data/aria-data.json'
ImportData ==
  /\ pc = "done"
  /\ data = Undefined
  /\ Idle
  /\ data' = output
  /\ UNCHANGED <<files, output, pc, locals, run, prevOutput, response, walk>>

\* Object.entries(data.roleCategories): the keys in the order of the literal
CategoryOrder ==
  <<"abstract", "widget", "document", "landmark", "liveRegion", "window", "composite">>

\* the sections list-roles prints for 'all': a heading and the sorted names
\* of every category that has a role
RECURSIVE AllSections(_, _)
AllSections(roleCategories, cats) ==
  IF cats = <<>> THEN <<>>
  ELSE LET list == roleCategories[Head(cats)]
       IN (IF list # <<>> THEN <<Head(cats)>> \o Sorted(list) ELSE <<>>)
            \o AllSections(roleCategories, Tail(cats))

ListRolesArgs ==
  {Undefined, Def("all"), Def("nosuchcategory")} \cup {Def(c) : c \in CategoryNames}

\* list-roles: roles.sort() sorts the list of the dataset in place
ListRoles ==
  /\ IsDef(data)
  /\ Idle
  /\ \E arg \in ListRolesArgs :
       LET category == OrElse(arg, "all")
           d == Val(data)
       IN IF category = "all"
          THEN /\ response' = <<"# All ARIA Roles by Category">>
                                \o AllSections(d.roleCategories, CategoryOrder)
               /\ data' = Def([d EXCEPT !.roleCategories =
                                  [c \in CategoryNames |-> Sorted(d.roleCategories[c])]])
          ELSE IF category \notin CategoryNames
          THEN /\ response' = <<"Invalid category">>
               /\ data' = data
          ELSE /\ response' = <<category>> \o Sorted(d.roleCategories[category])
               /\ data' = Def([d EXCEPT !.roleCategories[category] = Sorted(@)])
  /\ UNCHANGED <<files, output, pc, locals, run, prevOutput, walk>>

\* Object.keys(data.roles).filter(r => r.includes(roleName) || roleName.includes(r))
\*   .slice(0, 5)
Similar(keys, roleName) ==
  LET found == SelectSeq(keys, LAMBDA r : includes(r, roleName) \/ includes(roleName, r))
  IN IF Len(found) > 5 THEN SubSeq(found, 1, 5) ELSE found

\* the role names get-role is called with: lower case, no 'role:' prefix
GetRoleArgs == {"navigation", "switch", "nav", "nosuchrole"}

\* get-role
GetRole ==
  /\ IsDef(data)
  /\ Idle
  /\ \E roleName \in GetRoleArgs :
       response' = IF MapHas(Val(data).roles, roleName)
                   THEN <<roleName>>
                   ELSE <<"not found">> \o Similar(MapKeys(Val(data).roles), roleName)
  /\ UNCHANGED <<files, output, pc, locals, run, prevOutput, data, walk>>

\* get-roles-requiring-name: filter() makes the array that is sorted
GetRolesRequiringName ==
  /\ IsDef(data)
  /\ Idle
  /\ response' = <<"# Roles Requiring an Accessible Name">>
                    \o Sorted(MapKeys(SelectSeq(Val(data).roles,
                                                LAMBDA e : e.v.accessibleNameRequired)))
  /\ UNCHANGED <<files, output, pc, locals, run, prevOutput, data, walk>>

\* list-landmarks: landmarks.sort() sorts the list of the dataset in place
ListLandmarks ==
  /\ IsDef(data)
  /\ Idle
  /\ response' = <<"# ARIA Landmark Roles">> \o Sorted(Val(data).roleCategories.landmark)
  /\ data' = Def([Val(data) EXCEPT !.roleCategories.landmark = Sorted(@)])
  /\ UNCHANGED <<files, output, pc, locals, run, prevOutput, walk>>

ListWidgetArgs == {Undefined, Def("simple"), Def("composite"), Def("all")}

\* list-widget-roles: concat() makes the array that is sorted
ListWidgetRoles ==
  /\ IsDef(data)
  /\ Idle
  /\ \E arg \in ListWidgetArgs :
       LET type == OrElse(arg, "all")
           simple == IF type \in {"all", "simple"} THEN Val(data).roleCategories.widget
                     ELSE <<>>
           composite == IF type \in {"all", "composite"}
                        THEN Val(data).roleCategories.composite ELSE <<>>
           title == IF type = "composite" THEN "Composite Widget Roles"
                    ELSE IF type = "simple" THEN "Simple Widget Roles"
                    ELSE "All Widget Roles"
       IN response' = <<title>> \o Sorted(simple \o composite)
  /\ UNCHANGED <<files, output, pc, locals, run, prevOutput, data, walk>>

\* list-live-regions: liveRegions.sort() sorts the list of the dataset in place
ListLiveRegions ==
  /\ IsDef(data)
  /\ Idle
  /\ response' = <<"# ARIA Live Region Roles">>
                    \o Sorted(Val(data).roleCategories.liveRegion)
  /\ data' = Def([Val(data) EXCEPT !.roleCategories.liveRegion = Sorted(@)])
  /\ UNCHANGED <<files, output, pc, locals, run, prevOutput, walk>>

\* the role names get-role-hierarchy is called with
GetRoleHierarchyArgs == {"switch", "button", "nosuchrole"}

\* current?.superclassRoles?.length
HasSuperclass(current) == IsDef(current) /\ Val(current).superclassRoles # <<>>

\* data.roles[name]
RoleNamed(name) ==
  IF MapHas(Val(data).roles, name) THEN Def(MapVal(Val(data).roles, name)) ELSE Undefined

\* get-role-hierarchy, up to the while loop
GetRoleHierarchy ==
  /\ IsDef(data)
  /\ Idle
  /\ \E roleName \in GetRoleHierarchyArgs :
       IF ~IsDef(RoleNamed(roleName))
       THEN /\ response' = <<"not found", roleName>>
            /\ walk' = Undefined
       ELSE /\ walk' = Def([roleName |-> roleName, ancestors |-> <<>>,
                            current |-> RoleNamed(roleName), odd |-> FALSE])
            /\ response' = response
  /\ UNCHANGED <<files, output, pc, locals, run, prevOutput, data>>

\* one turn of the while loop: the first superclass name is put in front of
\* ancestors, of which the model keeps the MaxChain names added first, and
\* current becomes the role of that name
HierarchyLoop ==
  /\ IsDef(walk)
  /\ HasSuperclass(Val(walk).current)
  /\ LET parentName == Val(Val(walk).current).superclassRoles[1]
     IN walk' = Def([Val(walk) EXCEPT
                       !.ancestors = IF Len(@) < MaxChain THEN <<parentName>> \o @ ELSE @,
                       !.current = RoleNamed(parentName),
                       !.odd = ~@])
  /\ UNCHANGED <<files, output, pc, locals, run, prevOutput, data, response>>

\* the loop is left and the text is returned
HierarchyReturn ==
  /\ IsDef(walk)
  /\ ~HasSuperclass(Val(walk).current)
  /\ LET role == Val(RoleNamed(Val(walk).roleName))
     IN response' = <<"# Role Hierarchy for", Val(walk).roleName>>
                      \o Val(walk).ancestors
                      \o (IF role.superclassRoles # <<>>
                          THEN <<"Direct Superclass Roles:">> \o role.superclassRoles ELSE <<>>)
                      \o (IF role.subclassRoles # <<>>
                          THEN <<"Direct Subclass Roles:">> \o role.subclassRoles ELSE <<>>)
  /\ walk' = Undefined
  /\ UNCHANGED <<files, output, pc, locals, run, prevOutput, data>>

(***************************************************************************)
(* The source documents the model is checked on.                           *)
(***************************************************************************)
RoleBlock(id, rows) == [id |-> id, description |-> "A role.", rows |-> rows]

AttrBlock(id, isState, rows) ==
  [id |-> id, isState |-> isState, description |-> "An attribute.", rows |-> rows]

AriaDoc(roleBlocks, attrBlocks) == [roleBlocks |-> roleBlocks, attrBlocks |-> attrBlocks]

Text(text) == Cell(text, <<>>)

AllElementsRow == Row("Used in Roles:", Text("All elements of the base markup"))

\* the roles of the structured table
TableRoles == {"switch", "checkbox", "input"}

\* a primary document with the table's roles and one role, button, that the
\* table does not have and whose prose names a superclass
TableRolesDoc ==
  AriaDoc(<<RoleBlock(Def("switch"), <<>>),
            RoleBlock(Def("checkbox"), <<>>),
            RoleBlock(Def("input"), <<Row("Is Abstract:", Text("True"))>>),
            RoleBlock(Def("button"),
                      <<Row("Superclass Role:", Cell("command", <<El("rref", "command")>>))>>)>>,
          <<AttrBlock(Def("aria-label"), FALSE, <<AllElementsRow>>)>>)

\* the same without input, which is then a role of the table only
NoInputDoc ==
  AriaDoc(<<RoleBlock(Def("switch"), <<>>), RoleBlock(Def("checkbox"), <<>>)>>, <<>>)

AccNameDoc == [title |-> "Accessible Name and Description Computation 1.2",
               abstract |-> "How user agents compute names."]

HtmlAamDoc ==
  <<[caption |-> "HTML Element Role Mappings",
     rows |-> <<<<"button", "button">>, <<"nav", "navigation">>, <<"nav">>>>],
    [caption |-> "Attribute Mappings", rows |-> <<<<"checked", "aria-checked">>>>]>>

DpubDoc == <<[id |-> Def("doc-example"), description |-> "An example."]>>

GraphicsDoc ==
  <<[id |-> Def("doc-example"), description |-> "A graphic."],
    [id |-> Undefined, description |-> ""]>>

Table(table) == Def([kind |-> "object", table |-> table])

Files(aria, info) ==
  [aria |-> aria, roleInfo |-> info, accname |-> Def(AccNameDoc),
   htmlAam |-> Def(HtmlAamDoc), dpub |-> Def(DpubDoc), graphics |-> Def(GraphicsDoc),
   unreadable |-> {}]

\* the scenario of the specification: switch inherits from checkbox
SwitchTable ==
  <<[k |-> "checkbox",
     v |-> Entry(Def(<<"input">>), Undefined,
                 Def(<<Prop("aria-checked", TRUE), Prop("aria-label", FALSE)>>))],
    [k |-> "switch",
     v |-> Entry(Def(<<"checkbox">>), Def(<<Prop("aria-checked", TRUE)>>), Undefined)]>>

\* runs that every family has: no primary document; no roleInfo.js, one that
\* does not match, one that throws; no optional document at all
CommonFiles ==
  {Files(Undefined, Table(SwitchTable)),
   Files(Def(TableRolesDoc), Undefined),
   Files(Def(TableRolesDoc), Def([kind |-> "nomatch"])),
   Files(Def(TableRolesDoc), Def([kind |-> "throws"])),
   [aria |-> Def(TableRolesDoc), roleInfo |-> Table(SwitchTable), accname |-> Undefined,
    htmlAam |-> Undefined, dpub |-> Undefined, graphics |-> Undefined, unreadable |-> {}]}

(***************************************************************************)
(* Structured tables: every parent graph over the table's roles with one   *)
(* fixed assignment of property lists, and every assignment of property    *)
(* lists over a few graphs.                                                *)
(***************************************************************************)
ParentLists ==
  {Undefined}
    \cup {Def(p) : p \in {q \in SeqsUpTo(TableRoles, MaxParents) : NoDup(q)}}
    \cup {Def(<<"checkbox", "checkbox">>)}

Checked(required) == Prop("aria-checked", required)

Label(required) == Prop("aria-label", required)

Atomic(required) == Prop("aria-atomic", required)

\* the lists of family A
LocalOf(r) ==
  CASE r = "switch" -> Def(<<Checked(TRUE)>>)
    [] r = "checkbox" -> Def(<<Checked(FALSE), Label(FALSE)>>)
    [] OTHER -> Def(<<Label(TRUE), Atomic(FALSE)>>)

KeyOrders == {<<"switch", "checkbox", "input">>, <<"input", "checkbox", "switch">>}

GraphTables ==
  {[i \in 1..3 |-> [k |-> keys[i], v |-> Entry(g[keys[i]], LocalOf(keys[i]), Undefined)]] :
     keys \in {<<"switch", "checkbox", "input">>}, g \in [TableRoles -> ParentLists]}

\* the lists of family B: localprops and allprops of an entry
OwnLists ==
  {<<Undefined, Undefined>>,
   <<Def(<<Checked(TRUE)>>), Undefined>>,
   <<Def(<<Checked(FALSE), Label(FALSE)>>), Undefined>>,
   <<Def(<<Checked(TRUE), Checked(FALSE)>>), Undefined>>,
   <<Def(<<Atomic(TRUE)>>), Def(<<>>)>>,
   <<Def(<<Checked(TRUE)>>), Def(<<Label(TRUE), Atomic(FALSE)>>)>>,
   <<Undefined, Def(<<Label(TRUE), Label(FALSE)>>)>>}

\* chain, diamond, two-cycle, self-reference with a parent outside the cycle
Graphs ==
  {[switch |-> Def(<<"checkbox">>), checkbox |-> Def(<<"input">>), input |-> Undefined],
   [switch |-> Def(<<"checkbox", "input">>), checkbox |-> Def(<<"input">>), input |-> Def(<<>>)],
   [switch |-> Def(<<"checkbox">>), checkbox |-> Def(<<"switch", "input">>), input |-> Undefined],
   [switch |-> Def(<<"switch", "input">>), checkbox |-> Def(<<"input", "switch">>),
    input |-> Def(<<"checkbox">>)]}

ListTables ==
  {[i \in 1..3 |-> [k |-> keys[i], v |-> Entry(g[keys[i]], own[keys[i]][1], own[keys[i]][2])]] :
     keys \in KeyOrders, g \in Graphs, own \in [TableRoles -> OwnLists]}

\* tables without an entry for input, which switch and checkbox may name
PartialTables ==
  {<<[k |-> "switch", v |-> Entry(ps, LocalOf("switch"), Undefined)],
     [k |-> "checkbox", v |-> Entry(pc2, LocalOf("checkbox"), Undefined)]>> :
     ps \in ParentLists, pc2 \in ParentLists}

ResolverFiles ==
  {Files(Def(TableRolesDoc), Table(t)) : t \in GraphTables \cup ListTables \cup PartialTables}
    \cup {Files(Def(NoInputDoc), Table(t)) : t \in GraphTables \cup PartialTables \cup {SwitchTable}}
    \cup CommonFiles

Start(fileSets) ==
  /\ files \in fileSets
  /\ output = Undefined
  /\ run = 1
  /\ prevOutput = Undefined
  /\ data = Undefined
  /\ response = <<>>
  /\ walk = Undefined
  /\ Fresh

InitResolver == Start(ResolverFiles)

NextRun ==
  \/ LoadAria
  \/ ParseRoles
  \/ ParseStatesAndProperties
  \/ ParseRoleInfo
  \/ MergeEntry
  \/ ResolveEnter
  \/ ResolveLoop
  \/ Categorize
  \/ ParseAccName
  \/ ParseHtmlAam
  \/ ParseDpubAria
  \/ ParseGraphicsAria
  \/ WriteOutput

\* one run over every structured table
SpecResolver == InitResolver /\ [][NextRun]_vars

\* one run in which the calls of buildAllProps, once made, are carried on:
\* the script is one thread that nothing suspends
SpecResolverFair == SpecResolver /\ WF_vars(ResolveEnter \/ ResolveLoop)

(***************************************************************************)
(* Primary documents: every sequence of role blocks, and every sequence of *)
(* state/property blocks, over a few ids and characteristics tables.       *)
(***************************************************************************)
\* ids of role blocks: one name of each static list, one of the unused
\* document list, one of no list; a block without id and one with an empty id
RoleIds ==
  {Def("widget"), Def("banner"), Def("alert"), Def("dialog"), Def("grid"), Def("switch"),
   Def("article"), Def("doc-example"), Def(""), Undefined}

RoleTables ==
  {<<>>,
   <<Row("Is Abstract:", Text("True"))>>,
   <<Row("Is  Abstract:", Text("False")), Row("Note:", Text("True"))>>}

RoleBlockSet == {RoleBlock(id, rows) : id \in RoleIds, rows \in RoleTables}

AttrIds == {Def("aria-label"), Def("aria-atomic"), Undefined}

AttrTables ==
  {<<>>,
   <<AllElementsRow>>,
   <<Row("Used in Roles:", Text("Any element"))>>,
   <<Row("Used in Roles:",
         Cell("button, link", <<El("rref", "button"), El("rref", "link")>>))>>,
   <<Row("Applicable to:", Text("Roles; all elements allowed")),
     Row("Used in Roles:", Cell("button", <<El("rref", "button")>>))>>,
   <<Row("Value:", Text("token: true | false"))>>}

AttrBlockSet ==
  {AttrBlock(id, isState, rows) : id \in AttrIds, isState \in BOOLEAN, rows \in AttrTables}

LabelBlock == AttrBlock(Def("aria-label"), FALSE, <<AllElementsRow>>)

CategorizeFiles ==
  {Files(Def(AriaDoc(rb, <<LabelBlock>>)), Table(SwitchTable)) :
     rb \in SeqsUpTo(RoleBlockSet, MaxRoleBlocks)}
    \cup CommonFiles

AttributeFiles ==
  {Files(Def(AriaDoc(<<RoleBlock(Def("switch"), <<>>)>>, ab)), Table(SwitchTable)) :
     ab \in SeqsUpTo(AttrBlockSet, MaxAttrBlocks)}
    \cup CommonFiles

\* the documents of the runs that are repeated
RerunFiles ==
  {Files(Def(AriaDoc(rb, ab)), Table(SwitchTable)) :
     rb \in SeqsUpTo(RoleBlockSet, 1), ab \in SeqsUpTo(AttrBlockSet, 1)}
    \cup {Files(Def(TableRolesDoc), Table(t)) : t \in PartialTables}
    \cup CommonFiles

\* every condition of every source document: missing, unreadable, present
\* with and without the shape its parser looks for
Slots == {"aria", "roleInfo", "accname", "htmlAam", "dpub", "graphics"}

EmptyDoc == AriaDoc(<<>>, <<>>)

NoCaptionDoc == <<[caption |-> "Attribute Mappings", rows |-> <<<<"checked", "aria-checked">>>>]>>

SourceFiles ==
  {[aria |-> a, roleInfo |-> i, accname |-> n, htmlAam |-> h, dpub |-> d, graphics |-> g,
    unreadable |-> u] :
     a \in {Undefined, Def(TableRolesDoc), Def(EmptyDoc)},
     i \in {Undefined, Def([kind |-> "nomatch"]), Def([kind |-> "throws"]), Table(SwitchTable)},
     n \in {Undefined, Def(AccNameDoc)},
     h \in {Undefined, Def(HtmlAamDoc), Def(NoCaptionDoc)},
     d \in {Undefined, Def(DpubDoc)},
     g \in {Undefined, Def(GraphicsDoc)},
     u \in {{}} \cup {{slot} : slot \in Slots}}

InitSources == Start(SourceFiles)

\* primary documents whose role blocks are in any order
ServedIds == {"navigation", "banner", "status", "alert", "switch", "button"}

ServedTables ==
  {<<>>,
   <<Row("Accessible Name Required:", Text("True"))>>,
   <<Row("Superclass Role:", Cell("switch", <<El("rref", "switch")>>))>>,
   <<Row("Superclass Role:", Cell("button", <<El("rref", "button")>>))>>}

ServedFiles ==
  {Files(Def(AriaDoc(rb, <<LabelBlock>>)), Table(SwitchTable)) :
     rb \in {b \in SeqsUpTo({RoleBlock(Def(id), rows) : id \in ServedIds, rows \in ServedTables},
                            MaxRoleBlocks) :
               \A i, j \in 1..Len(b) : b[i].id = b[j].id => i = j}}
    \cup CommonFiles

InitServed == Start(ServedFiles)

NextServed ==
  \/ NextRun
  \/ ImportData
  \/ ListRoles
  \/ GetRole
  \/ GetRolesRequiringName
  \/ ListLandmarks
  \/ ListWidgetRoles
  \/ ListLiveRegions
  \/ GetRoleHierarchy
  \/ HierarchyLoop
  \/ HierarchyReturn

\* one role block with every characteristics table of up to MaxRows rows: a
\* header of each rule, headers that hold the phrases of two rules, and a
\* header of no rule
ListHeaders ==
  {"Superclass Role:", "Subclass Roles:", "Related Concepts:", "Required Context Role:",
   "Required Owned Elements:", "Required States and Properties:",
   "Supported States and Properties:", "Inherited States and Properties:",
   "Prohibited States and Properties:", "Superclass and Subclass Roles:",
   "Required Context Role (Required Owned Elements):",
   "Supported States; Prohibited States:", "Inherited States and Supported Properties:"}

ScalarHeaders ==
  {"Name From:", "Accessible Name Required:", "Children Presentational:", "Is Abstract:",
   "Implicit Value for Role:", "Name From (Accessible Name Required):",
   "Is Abstract; Implicit Value:"}

RefsCell ==
  Cell("command button aria-checked",
       <<El("rref", "command"), El("code", "button"), El("sref", "aria-checked")>>)

RoleRowSet ==
  {Row(h, RefsCell) : h \in ListHeaders}
    \cup {Row(h, Text(t)) : h \in ScalarHeaders, t \in {"True", "aria-live: assertive"}}
    \cup {Row("Note:", Text("True"))}

RowFiles ==
  {Files(Def(AriaDoc(<<RoleBlock(Def("switch"), rows)>>, <<LabelBlock>>)), Table(SwitchTable)) :
     rows \in SeqsUpTo(RoleRowSet, MaxRows)}
    \cup CommonFiles

InitRows == Start(RowFiles)

\* one role block with every table of up to MaxRows rows over the headers of
\* the three boolean fields and a header of no rule, each with a cell that is
\* the word in some letter case, padded, followed by other words, another
\* word, or empty
FlagHeaders == {"Accessible Name Required:", "Children Presentational:", "Is  Abstract:"}

FlagTexts == {"True", "TRUE", " True ", "False", "True (see note)", "  "}

FlagRowSet ==
  {Row(h, Text(t)) : h \in FlagHeaders, t \in FlagTexts} \cup {Row("Note:", Text("True"))}

FlagFiles ==
  {Files(Def(AriaDoc(<<RoleBlock(Def("switch"), rows)>>, <<LabelBlock>>)), Table(SwitchTable)) :
     rows \in SeqsUpTo(FlagRowSet, MaxRows)}
    \cup CommonFiles

InitFlags == Start(FlagFiles)

\* primary documents of up to MaxSiblings role blocks, or state/property
\* blocks, over two ids, an empty id and no id, so that blocks lack an id or
\* repeat one, with tables that tell the blocks of one id apart
SiblingRoleBlocks ==
  {RoleBlock(id, rows) :
     id \in {Def("banner"), Def("alert"), Def(""), Undefined},
     rows \in {<<>>, <<Row("Is Abstract:", Text("True"))>>}}

\* a state block says that it applies to all elements, a property block has
\* no row
SiblingAttrBlocks ==
  {AttrBlock(id, isState, IF isState THEN <<AllElementsRow>> ELSE <<>>) :
     id \in {Def("aria-label"), Def("aria-atomic"), Undefined},
     isState \in BOOLEAN}

BlockFiles ==
  {Files(Def(AriaDoc(rb, <<LabelBlock>>)), Table(SwitchTable)) :
     rb \in SeqsUpTo(SiblingRoleBlocks, MaxSiblings)}
    \cup {Files(Def(AriaDoc(<<RoleBlock(Def("switch"), <<>>)>>, ab)), Table(SwitchTable)) :
             ab \in SeqsUpTo(SiblingAttrBlocks, MaxSiblings)}
    \cup CommonFiles

InitBlocks == Start(BlockFiles)

\* one property block with every table of up to MaxRows rows over a header
\* of the value rule, one of the default rule, one with the words of both,
\* and one of no rule
ValueHeaders == {"Value:", "Default:", "Default value:", "Note:"}

ValueRowSet == {Row(h, Text(t)) : h \in ValueHeaders, t \in {"True", "False"}}

ValueFiles ==
  {Files(Def(AriaDoc(<<RoleBlock(Def("switch"), <<>>)>>,
                     <<AttrBlock(Def("aria-label"), FALSE, rows)>>)),
         Table(SwitchTable)) :
     rows \in SeqsUpTo(ValueRowSet, MaxRows)}
    \cup CommonFiles

InitValues == Start(ValueFiles)

\* html-aam documents of three tables, none nested in another: one of up to
\* MaxRows rows under each caption, one with a caption the parser passes
\* over, one of at most one row; the rows name two elements, or have one
\* cell, or a blank element or role cell
MappingRows ==
  {<<"nav", "navigation">>, <<"nav", "banner">>, <<"button", "button">>,
   <<"nav">>, <<"  ", "button">>, <<"nav", "  ">>}

Captions == {"HTML Element Role Mappings", "ARIA Role Mapping", "Attribute Mappings"}

MappingDocs ==
  {<<[caption |-> c, rows |-> first],
     [caption |-> "Attribute Mappings", rows |-> <<<<"nav", "status">>>>],
     [caption |-> "HTML Element Role Mappings", rows |-> last]>> :
     c \in Captions,
     first \in SeqsUpTo(MappingRows, MaxRows),
     last \in SeqsUpTo(MappingRows, 1)}

MappingFiles ==
  {[Files(Def(TableRolesDoc), Table(SwitchTable)) EXCEPT !.htmlAam = Def(d)] : d \in MappingDocs}
    \cup CommonFiles

InitMappings == Start(MappingFiles)

InitCategorize == Start(CategorizeFiles)

InitAttributes == Start(AttributeFiles)

Init == Start(RerunFiles)

Next == NextRun \/ Rerun

\* one run over every primary document's role blocks
SpecCategorize == InitCategorize /\ [][NextRun]_vars

\* one run over every primary document's state/property blocks
SpecAttributes == InitAttributes /\ [][NextRun]_vars

\* one run over every condition of the source documents
SpecSources == InitSources /\ [][NextRun]_vars

\* one run, then the server started on its output and its tools called
SpecServed == InitServed /\ [][NextServed]_vars

\* the same where a handler that has been entered is carried on: a handler
\* is synchronous code of the one thread
SpecServedFair == SpecServed /\ WF_vars(HierarchyLoop \/ HierarchyReturn)

\* one run over every characteristics table of a role
SpecRows == InitRows /\ [][NextRun]_vars

\* one run over every table of boolean rows of a role
SpecFlags == InitFlags /\ [][NextRun]_vars

\* one run over every sequence of sibling blocks
SpecBlocks == InitBlocks /\ [][NextRun]_vars

\* one run over every html-aam document
SpecMappings == InitMappings /\ [][NextRun]_vars

\* one run over every table of value and default rows of a property
SpecValues == InitValues /\ [][NextRun]_vars

\* the script run MaxRuns times over the same documents
Spec == Init /\ [][Next]_vars

(***************************************************************************)
(* Vocabulary of the properties.                                           *)
(***************************************************************************)
Names(props) == {props[i].name : i \in 1..Len(props)}

NoDupNames(props) == \A i, j \in 1..Len(props) : props[i].name = props[j].name => i = j

\* the merge of the table into the roles is over
MergeDone ==
  pc \in {"categorize", "parseAccName", "parseHtmlAam", "parseDpub", "parseGraphics",
          "write", "done"}

\* main has just stored the allProps of `r`: the resolver's variables are
\* those of the top-level call for r
JustResolved(r) ==
  /\ pc = "merge"
  /\ mi > 1
  /\ roleInfo[mi - 1].k = r
  /\ MapHas(roles, r)

\* a role that is both in the table and in the role map
Resolved(r) == MapHas(roleInfo, r) /\ MapHas(roles, r)

AllPropsOf(r) == Val(MapVal(roles, r).allProps)

DeclaredParents(table, r) ==
  IF MapHas(table, r) THEN Range(OrElse(MapVal(table, r).parentRoles, <<>>)) ELSE {}

RECURSIVE Closure(_, _, _)
Closure(table, S, n) ==
  IF n = 0 THEN S
  ELSE Closure(table, S \cup UNION {DeclaredParents(table, x) : x \in S}, n - 1)

Ancestors(table, r) == Closure(table, DeclaredParents(table, r), Len(table))

OnCycle(table, r) == r \in Ancestors(table, r)

Acyclic(table) == \A r \in Range(MapKeys(table)) : ~OnCycle(table, r)

(***************************************************************************)
(* C1                                                                      *)
(***************************************************************************)
\* C1, as claimed: in a table without a parent cycle, the property names of
\* buildAllProps(R) include those of buildAllProps(P) for every declared
\* parent P of R.
C1_ParentNamesIncluded ==
  (MergeDone /\ Acyclic(roleInfo)) =>
    \A r \in Range(MapKeys(roleInfo)) : \A p \in DeclaredParents(roleInfo, r) :
      (Resolved(r) /\ Resolved(p)) => Names(AllPropsOf(p)) \subseteq Names(AllPropsOf(r))

\* C1, amended: the same for every role R whose table entry carries no
\* precomputed allprops list.
C1_ParentNamesIncludedUnlessPrecomputed ==
  (MergeDone /\ Acyclic(roleInfo)) =>
    \A r \in Range(MapKeys(roleInfo)) : \A p \in DeclaredParents(roleInfo, r) :
      (Resolved(r) /\ Resolved(p) /\ ~IsDef(MapVal(roleInfo, r).allprops))
        => Names(AllPropsOf(p)) \subseteq Names(AllPropsOf(r))

\* a role without allprops has inherited, through its second parent, a name
\* that neither it nor its first parent declares
C1_Witness ==
  /\ MergeDone
  /\ Acyclic(roleInfo)
  /\ Resolved("switch") /\ Resolved("checkbox") /\ Resolved("input")
  /\ MapVal(roleInfo, "switch").parentRoles = Def(<<"checkbox", "input">>)
  /\ ~IsDef(MapVal(roleInfo, "switch").allprops)
  /\ "aria-atomic" \in Names(AllPropsOf("switch"))
  /\ "aria-atomic" \notin Names(AllPropsOf("checkbox"))

(***************************************************************************)
(* C2                                                                      *)
(***************************************************************************)
\* C2: no allProps of a role of the written dataset has two entries with the
\* same property name.
C2_NoDuplicateNames ==
  pc = "done" =>
    \A i \in 1..Len(Val(output).roles) :
      IsDef(Val(output).roles[i].v.allProps)
        => NoDupNames(Val(Val(output).roles[i].v.allProps))

(***************************************************************************)
(* C3                                                                      *)
(***************************************************************************)
RECURSIVE SumOwn(_)
SumOwn(table) ==
  IF table = <<>> THEN 0 ELSE Len(OwnProps(Head(table).v)) + SumOwn(Tail(table))

\* no role is expanded twice in a top-level call, the recursion is never
\* deeper than the table has roles (plus the activation the guard turns
\* back), and a stored list is no longer than the table's lists together
C3_Bounded ==
  /\ NoDup(expanded)
  /\ Len(stack) <= Len(roleInfo) + 1
  /\ \A r \in TableRoles :
       (JustResolved(r) /\ OnCycle(roleInfo, r)) => Len(AllPropsOf(r)) <= SumOwn(roleInfo)

\* C3: the top-level call for a role on a parent cycle returns to main, and
\* on the way no role is expanded twice.
C3_CycleResolutionTerminates ==
  /\ []C3_Bounded
  /\ (pc = "resolve" /\ OnCycle(roleInfo, stack[1].roleName)) ~> (pc = "merge")

\* the call for switch, which is on a cycle through checkbox, has returned
\* after expanding both
C3_Witness ==
  /\ JustResolved("switch")
  /\ OnCycle(roleInfo, "switch")
  /\ "switch" \in DeclaredParents(roleInfo, "checkbox")
  /\ {"switch", "checkbox"} \subseteq Range(expanded)
  /\ Len(calls) > Len(expanded)
  /\ AllPropsOf("switch") # <<>>

(***************************************************************************)
(* C4                                                                      *)
(***************************************************************************)
\* The own lists of the roles met from r in recursive pre-order: r's own
\* list, then each parent's in declared order, a role met again adding
\* nothing.
RECURSIVE PreOrder(_, _, _)
RECURSIVE PreOrderEach(_, _, _, _)
PreOrder(table, r, vis) ==
  IF r \in vis THEN [entries |-> <<>>, vis |-> vis]
  ELSE IF ~MapHas(table, r) THEN [entries |-> <<>>, vis |-> vis \cup {r}]
  ELSE PreOrderEach(table, LoopParents(MapVal(table, r)), vis \cup {r},
                    OwnProps(MapVal(table, r)))

PreOrderEach(table, parents, vis, acc) ==
  IF parents = <<>> THEN [entries |-> acc, vis |-> vis]
  ELSE LET sub == PreOrder(table, Head(parents), vis)
       IN PreOrderEach(table, Tail(parents), sub.vis, acc \o sub.entries)

\* the first entry of each name, in order
RECURSIVE FirstOfEachName(_, _)
FirstOfEachName(kept, list) ==
  IF list = <<>> THEN kept
  ELSE FirstOfEachName(
         IF Head(list).name \in Names(kept) THEN kept ELSE Append(kept, Head(list)),
         Tail(list))

\* C4: allProps(R) is the pre-order list of entries with every entry dropped
\* whose name an earlier entry has: the first entry of a name is kept whole,
\* every later one is dropped, and the kept ones stay in pre-order.
C4_FirstInPreOrderWins ==
  \A r \in TableRoles :
    JustResolved(r) =>
      AllPropsOf(r) = FirstOfEachName(<<>>, PreOrder(roleInfo, r, {}).entries)

(***************************************************************************)
(* C5                                                                      *)
(***************************************************************************)
IsPrefix(s, t) == Len(s) <= Len(t) /\ SubSeq(t, 1, Len(s)) = s

\* the roles a top-level call for r can reach through declared parents
ReachableOwn(table, r) ==
  UNION {Range(OwnProps(MapVal(table, x))) : x \in {y \in Ancestors(table, r) : MapHas(table, y)}}

\* C5: with a precomputed allprops the call returns that list and calls
\* buildAllProps for no parent; without one its result starts with the
\* localprops, and what follows are entries of the roles its parents lead to.
C5_PrecomputedVerbatim ==
  \A r \in TableRoles :
    JustResolved(r) =>
      LET info == MapVal(roleInfo, r)
          local == OrElse(info.localprops, <<>>)
          all == AllPropsOf(r)
      IN IF IsDef(info.allprops)
         THEN all = Val(info.allprops) /\ calls = <<r>> /\ visited = {r}
         ELSE /\ IsPrefix(local, all)
              /\ \A i \in (Len(local) + 1)..Len(all) : all[i] \in ReachableOwn(roleInfo, r)
              /\ Len(calls) >= 1 + Len(OrElse(info.parentRoles, <<>>))

\* switch carries an empty allprops, a non-empty localprops and a parent with
\* properties: its allProps is the empty list
C5_Witness ==
  /\ JustResolved("switch")
  /\ MapVal(roleInfo, "switch").allprops = Def(<<>>)
  /\ MapVal(roleInfo, "switch").localprops # Def(<<>>)
  /\ IsDef(MapVal(roleInfo, "switch").localprops)
  /\ MapVal(roleInfo, "switch").parentRoles = Def(<<"checkbox", "input">>)
  /\ OwnProps(MapVal(roleInfo, "checkbox")) # <<>>
  /\ AllPropsOf("switch") = <<>>

(***************************************************************************)
(* C6                                                                      *)
(***************************************************************************)
\* C6: in the written dataset a role that the table does not have has the
\* empty list as its allProps, and its localProps equal to it.
C6_MissingFromTableEmpty ==
  pc = "done" =>
    \A i \in 1..Len(Val(output).roles) :
      ~MapHas(roleInfo, Val(output).roles[i].k)
        => /\ Val(output).roles[i].v.allProps = Def(<<>>)
           /\ Val(output).roles[i].v.localProps = Val(output).roles[i].v.allProps

(***************************************************************************)
(* C7                                                                      *)
(***************************************************************************)
\* categorizeRoles has run
CategorizeDone ==
  pc \in {"parseAccName", "parseHtmlAam", "parseDpub", "parseGraphics", "write", "done"}

Count(list, x) == Cardinality({i \in 1..Len(list) : list[i] = x})

\* C7: after categorizeRoles every role of the map is in exactly one of the
\* seven lists, once, and its category field names that list; a list holds
\* role names of the map only.
C7_ExactlyOneCategory ==
  CategorizeDone =>
    /\ \A k \in Range(MapKeys(roles)) :
         /\ Cardinality({c \in CategoryNames : k \in Range(categories[c])}) = 1
         /\ \A c \in CategoryNames :
              k \in Range(categories[c])
                => Count(categories[c], k) = 1 /\ MapVal(roles, k).category = Def(c)
    /\ \A c \in CategoryNames : Range(categories[c]) \subseteq Range(MapKeys(roles))

\* two roles, one flagged abstract whose name is in the landmark list
C7_Witness ==
  /\ CategorizeDone
  /\ Len(roles) = 2
  /\ MapHas(roles, "banner") /\ MapVal(roles, "banner").isAbstract
  /\ categories.abstract = <<"banner">>
  /\ categories.widget = <<"switch">>

(***************************************************************************)
(* C8                                                                      *)
(***************************************************************************)
\* C8: the category is that of the first rule that matches, in the order
\* abstract (flag or list), landmark, liveRegion, window, composite, widget,
\* and document when none does.
C8_FirstMatchingRule ==
  CategorizeDone =>
    \A k \in Range(MapKeys(roles)) :
      LET r == MapVal(roles, k)
          abs == r.isAbstract \/ k \in abstractRoleNames
          lm == k \in landmarkRoleNames
          live == k \in liveRegionRoleNames
          win == k \in windowRoleNames
          comp == k \in compositeRoleNames
          wid == k \in widgetRoleNames
      IN /\ abs => r.category = Def("abstract")
         /\ (~abs /\ lm) => r.category = Def("landmark")
         /\ (~abs /\ ~lm /\ live) => r.category = Def("liveRegion")
         /\ (~abs /\ ~lm /\ ~live /\ win) => r.category = Def("window")
         /\ (~abs /\ ~lm /\ ~live /\ ~win /\ comp) => r.category = Def("composite")
         /\ (~abs /\ ~lm /\ ~live /\ ~win /\ ~comp /\ wid) => r.category = Def("widget")
         /\ (~abs /\ ~lm /\ ~live /\ ~win /\ ~comp /\ ~wid) => r.category = Def("document")

\* a role flagged abstract whose name is in the live-region list, and a role
\* of no list that is not flagged
C8_Witness ==
  /\ CategorizeDone
  /\ MapHas(roles, "alert") /\ MapVal(roles, "alert").isAbstract
  /\ MapVal(roles, "alert").category = Def("abstract")
  /\ MapHas(roles, "doc-example") /\ ~MapVal(roles, "doc-example").isAbstract
  /\ MapVal(roles, "doc-example").category = Def("document")

(***************************************************************************)
(* C9                                                                      *)
(***************************************************************************)
\* the block that gives attribute `name` its record: the last with that id
LastAttrBlock(name) ==
  LET blocks == Val(files.aria).attrBlocks
  IN blocks[CHOOSE i \in 1..Len(blocks) :
              /\ blocks[i].id = Def(name)
              /\ \A j \in (i + 1)..Len(blocks) : blocks[j].id # Def(name)]

\* cell texts that say the attribute applies to every element
AllElementsTexts ==
  {"All elements of the base markup", "Any element", "Roles; all elements allowed"}

\* the block has an applicability row whose cell says so
SaysAllElements(block) ==
  \E i \in 1..Len(block.rows) :
    /\ block.rows[i].th \in {"Used in Roles:", "Applicable to:"}
    /\ block.rows[i].td.text \in AllElementsTexts

\* C9: an attribute is in globalStatesAndProperties exactly when its
\* applicability cell says it applies to all elements ("Any element" among
\* the ways to say so).
C9_GlobalIffAllElements ==
  pc = "done" =>
    \A name \in Range(MapKeys(statesAndProperties)) :
      name \in Range(Val(output).globalStatesAndProperties)
        <=> SaysAllElements(LastAttrBlock(name))

(***************************************************************************)
(* C10                                                                     *)
(***************************************************************************)
WithoutGeneratedAt(dataset) == [dataset EXCEPT !.metadata.generatedAt = 0]

PrimaryFailed == ~existsSync("aria") \/ ReadThrows("aria")

NothingExtracted ==
  /\ roles = <<>>
  /\ statesAndProperties = <<>>
  /\ roleInfo = <<>>
  /\ categories = EmptyCategories
  /\ htmlMappings = <<>>
  /\ dpubRoles = <<>>
  /\ graphicsRoles = <<>>

\* C11: when the primary document is missing or cannot be read, no extraction
\* stage runs, the output is never written, and the process ends with a
\* non-zero exit status.
C11_PrimaryFailureAborts ==
  PrimaryFailed =>
    /\ pc \in {"start", "exit1", "caught"}
    /\ NothingExtracted
    /\ output = Undefined
    /\ Ended => ExitStatus # 0

(***************************************************************************)
(* C12                                                                     *)
(***************************************************************************)
IsNull(x) == x = Undefined

\* an optional object that is there and has no key
IsEmptyObject(x) == IsDef(x) /\ DOMAIN Val(x) = {}

\* some document that is there cannot be read
SomeUnreadable == \E slot \in Slots : IsDef(files[slot]) /\ slot \in files.unreadable

\* the sections whose documents are there hold what the documents define
OthersPopulated ==
  /\ files.aria = Def(TableRolesDoc) =>
       /\ Len(Val(output).roles) = Len(TableRolesDoc.roleBlocks)
       /\ Val(output).properties # <<>>
       /\ Val(output).globalStatesAndProperties = <<"aria-label">>
  /\ existsSync("accname") => IsDef(Val(output).accname)
  /\ files.htmlAam = Def(HtmlAamDoc) => Val(output).htmlMappings # <<>>
  /\ existsSync("dpub") => Val(output).extensions.dpub # <<>>
  /\ existsSync("graphics") => Val(output).extensions.graphics # <<>>

\* what the run makes of the optional sources other than accname
MissingSourcesEmpty ==
  /\ pc = "caught" => SomeUnreadable
  /\ pc = "done" =>
       /\ OthersPopulated
       /\ ~existsSync("roleInfo") => roleInfo = <<>>
       /\ ~existsSync("htmlAam") => Val(output).htmlMappings = <<>>
       /\ ~existsSync("dpub") => Val(output).extensions.dpub = <<>>
       /\ ~existsSync("graphics") => Val(output).extensions.graphics = <<>>

\* C12 as stated: a missing optional source does not end the run, the output
\* is written with the other sections populated, and the section of the
\* missing source, accname included, is an empty collection.
C12_MissingSourceEmptyCollection ==
  /\ MissingSourcesEmpty
  /\ (pc = "done" /\ ~existsSync("accname")) => IsEmptyObject(Val(output).accname)

\* C12: a missing optional source does not end the run, the output is written
\* with the other sections populated, and the section of the missing source
\* is an empty collection, or null for accname.
C12_MissingSourceEmptyOrNull ==
  /\ MissingSourcesEmpty
  /\ (pc = "done" /\ ~existsSync("accname")) => IsNull(Val(output).accname)

\* a run that finished without accname and dpub-aria, with the others
C12_Witness ==
  /\ pc = "done"
  /\ ~existsSync("accname") /\ ~existsSync("dpub")
  /\ files.htmlAam = Def(HtmlAamDoc) /\ existsSync("graphics")
  /\ files.aria = Def(TableRolesDoc)
  /\ IsDef(output)

(***************************************************************************)
(* C13                                                                     *)
(***************************************************************************)
PrimaryReadable == IsDef(files.aria) /\ "aria" \notin files.unreadable

\* C13: with the primary document present and readable, whatever the
\* condition of the optional sources, the run never ends by an exit or by an
\* exception at the top level, and when it has ended the output is written.
C13_OnlyPrimaryFatal ==
  PrimaryReadable =>
    /\ pc \notin {"exit1", "caught"}
    /\ Ended => IsDef(output)

(***************************************************************************)
(* C14                                                                     *)
(***************************************************************************)
OutputKeys ==
  {"metadata", "roles", "roleCategories", "states", "properties",
   "globalStatesAndProperties", "htmlMappings", "extensions", "accname", "serverInfo"}

\* C14: the output file is absent or holds all ten top-level keys, and it is
\* written by one step only, the one that ends main after every stage, and
\* only when it was absent.
C14_OutputAbsentOrComplete ==
  /\ [](output = Undefined \/ (pc = "done" /\ DOMAIN Val(output) = OutputKeys))
  /\ [][output' # output => (pc = "write" /\ pc' = "done" /\ output = Undefined)]_vars

\* an output written with empty optional sections
C14_Witness ==
  /\ pc = "done"
  /\ IsDef(output)
  /\ Val(output).roles # <<>>
  /\ Val(output).htmlMappings = <<>>
  /\ Val(output).accname = Undefined

(***************************************************************************)
(* C15                                                                     *)
(***************************************************************************)
\* the ids of the blocks of a document that have one
BlockIds(blocks) == {Val(blocks[i].id) : i \in {j \in 1..Len(blocks) : ~NoId(blocks[j].id)}}

\* every role a module's document defines is in `collection`, tagged `module`
ModuleScoped(collection, file, module) ==
  /\ Range(MapKeys(collection)) = (IF IsDef(file) THEN BlockIds(Val(file)) ELSE {})
  /\ \A n \in Range(MapKeys(collection)) : MapVal(collection, n).module = module

ModuleStageKeepsRoles ==
  (pc \in {"parseDpub", "parseGraphics", "write"}) => (roles' = roles /\ categories' = categories)

\* C15: the stages that read dpub-aria and graphics-aria leave the primary
\* role map and the categories as they are; in the output the primary roles
\* are those of the primary document, none of them a module entry, and each
\* module's roles are in that module's collection under the module's name.
C15_ModuleRolesIsolated ==
  /\ [][ModuleStageKeepsRoles]_vars
  /\ [](pc = "done" =>
          /\ Range(MapKeys(Val(output).roles)) = BlockIds(Val(files.aria).roleBlocks)
          /\ \A k \in Range(MapKeys(Val(output).roles)) :
               "module" \notin DOMAIN MapVal(Val(output).roles, k)
          /\ \A c \in CategoryNames :
               Range(Val(output).roleCategories[c]) \subseteq BlockIds(Val(files.aria).roleBlocks)
          /\ ModuleScoped(Val(output).extensions.dpub, files.dpub, "dpub-aria")
          /\ ModuleScoped(Val(output).extensions.graphics, files.graphics, "graphics-aria"))

\* a primary role and a role of each module, all three named doc-example
C15_Witness ==
  /\ pc = "done"
  /\ MapHas(Val(output).roles, "doc-example")
  /\ MapHas(Val(output).extensions.dpub, "doc-example")
  /\ MapHas(Val(output).extensions.graphics, "doc-example")
  /\ MapVal(Val(output).extensions.dpub, "doc-example")
       # MapVal(Val(output).extensions.graphics, "doc-example")
  /\ MapVal(Val(output).roles, "doc-example").category = Def("document")

(***************************************************************************)
(* C16                                                                     *)
(***************************************************************************)
\* C16: whatever tools have been called, the dataset the server holds is the
\* dataset that was assembled, the order of each roleCategories list included.
C16_DatasetNeverMutated == IsDef(data) => data = output

(***************************************************************************)
(* C17                                                                     *)
(***************************************************************************)
\* roleInfo.js is missing, or is read and has no assignment that matches, or
\* has one whose evaluation throws
TableDegraded ==
  IF IsDef(files.roleInfo)
  THEN "roleInfo" \notin files.unreadable /\ Val(files.roleInfo).kind \in {"nomatch", "throws"}
  ELSE TRUE

CanonOrder == <<"checkbox", "input", "switch">>

RECURSIVE Canon(_, _)
Canon(table, keys) ==
  IF keys = <<>> THEN <<>>
  ELSE SelectSeq(table, LAMBDA e : e.k = Head(keys)) \o Canon(table, Tail(keys))

RECURSIVE AppendNew(_, _)
AppendNew(props, more) ==
  IF more = <<>> THEN props
  ELSE AppendNew(IF Head(more).name \in Names(props) THEN props ELSE Append(props, Head(more)),
                 Tail(more))

\* the list of one resolution that starts with nothing visited, as a function
\* of the table alone
RECURSIVE FreshResolve(_, _, _)
RECURSIVE FreshParents(_, _, _)
FreshResolve(table, roleName, vis) ==
  IF roleName \in vis THEN [props |-> <<>>, visited |-> vis]
  ELSE IF ~MapHas(table, roleName) THEN [props |-> <<>>, visited |-> vis \cup {roleName}]
  ELSE LET e == MapVal(table, roleName)
       IN IF IsDef(e.allprops)
          THEN [props |-> Val(e.allprops), visited |-> vis \cup {roleName}]
          ELSE FreshParents(table, OrElse(e.parentRoles, <<>>),
                            [props |-> OrElse(e.localprops, <<>>),
                             visited |-> vis \cup {roleName}])

FreshParents(table, parents, acc) ==
  IF parents = <<>> THEN acc
  ELSE LET r == FreshResolve(table, Head(parents), acc.visited)
       IN FreshParents(table, Tail(parents),
                       [props |-> AppendNew(acc.props, r.props), visited |-> r.visited])

\* C18: a top-level resolution starts with nothing visited, and the allProps
\* main has stored for a role are those of a resolution of that role alone
\* over the table's entries taken in a fixed order: neither the roles resolved
\* before it nor the order of the entries matter.
C18_FreshVisitedPerResolution ==
  /\ (pc = "resolve" /\ Len(stack) = 1 /\ stack[1].i = 0) => visited = {}
  /\ \A i \in 1..Len(roleInfo) :
       (MapHas(roles, roleInfo[i].k) /\ (i < mi \/ MergeDone)) =>
         AllPropsOf(roleInfo[i].k)
           = FreshResolve(Canon(roleInfo, CanonOrder), roleInfo[i].k, {}).props

\* the second resolution has called buildAllProps for the role of the first
C18_Witness ==
  /\ pc = "merge"
  /\ mi = 3
  /\ MapHas(roles, roleInfo[1].k)
  /\ MapHas(roles, roleInfo[2].k)
  /\ roleInfo[1].k \in Range(Tail(calls))
  /\ Names(AllPropsOf(roleInfo[2].k)) \ Names(OrElse(MapVal(roleInfo, roleInfo[2].k).localprops, <<>>)) # {}

(***************************************************************************)
(* C19                                                                     *)
(***************************************************************************)
\* the fields of a role that the extraction sets
ExtractionFields ==
  {"name", "description", "isAbstract", "superclassRoles", "subclassRoles",
   "relatedConcepts", "requiredContextRole", "requiredOwnedElements", "requiredStates",
   "supportedStates", "inheritedStates", "prohibitedStates", "nameFrom",
   "accessibleNameRequired", "childrenPresentational", "implicitValueForRole"}

\* a step after the extraction keeps the keys of the role map, in order, and
\* every extraction field of every role
KeepsExtractedRoles ==
  (pc \notin {"start", "parseRoles"}) =>
    /\ MapKeys(roles') = MapKeys(roles)
    /\ \A i \in 1..Len(roles) : \A f \in ExtractionFields : roles'[i].v[f] = roles[i].v[f]

\* C19: once the roles are extracted, the names of the role map are the ids
\* of the role blocks of the primary document, roles of the table only are
\* not among them, no later step changes the keys or an extraction field, and
\* the roles written are those of the map.
C19_RoleIdentityKept ==
  /\ [][KeepsExtractedRoles]_vars
  /\ [](pc \notin {"start", "exit1", "parseRoles"} =>
          /\ Range(MapKeys(roles)) = BlockIds(Val(files.aria).roleBlocks)
          /\ \A i \in 1..Len(roles) : DOMAIN roles[i].v
               = ExtractionFields \cup {"parentRoles", "localProps", "allProps", "category"}
          /\ \A i \in 1..Len(roles) : roles[i].v.name = roles[i].k)
  /\ [](pc = "done" => Val(output).roles = roles)

\* the run is over, the table has a role the document has not, and a role of
\* the document has the four later fields
C19_Witness ==
  /\ pc = "done"
  /\ MapHas(roleInfo, "input") /\ ~MapHas(Val(output).roles, "input")
  /\ MapHas(Val(output).roles, "switch")
  /\ IsDef(MapVal(Val(output).roles, "switch").parentRoles)
  /\ IsDef(MapVal(Val(output).roles, "switch").allProps)
  /\ Val(MapVal(Val(output).roles, "switch").parentRoles) # <<>>
  /\ MapVal(Val(output).roles, "switch").superclassRoles = <<>>
  /\ IsDef(MapVal(Val(output).roles, "switch").category)

(***************************************************************************)
(* C20                                                                     *)
(***************************************************************************)
\* the phrases of each rule, in the order of the rules, and the field of each
RulePhrases ==
  <<{"superclass"}, {"subclass"}, {"related concept"}, {"required context"},
    {"required owned", "required children"}, {"required state", "required properties"},
    {"supported state", "supported properties"}, {"inherited state"},
    {"prohibited state", "prohibited properties"}, {"name from"},
    {"accessible name required"}, {"children are presentational", "children presentational"},
    {"is abstract"}, {"implicit value"}>>

RuleFields ==
  <<"superclassRoles", "subclassRoles", "relatedConcepts", "requiredContextRole",
    "requiredOwnedElements", "requiredStates", "supportedStates", "inheritedStates",
    "prohibitedStates", "nameFrom", "accessibleNameRequired", "childrenPresentational",
    "isAbstract", "implicitValueForRole">>

Rules == 1..Len(RulePhrases)

ImplicitRule == Len(RulePhrases)

Matches(th, i) == \E phrase \in RulePhrases[i] : includes(toLowerCase(cleanText(th)), phrase)

\* the rule that wins the row: the first whose phrase is in the header
FirstRule(th) ==
  IF \E i \in Rules : Matches(th, i)
  THEN CHOOSE i \in Rules : Matches(th, i) /\ \A j \in 1..(i - 1) : ~Matches(th, j)
  ELSE 0

\* what the field of rule i is given by a row's cell
FieldFrom(i, td) ==
  IF i \in {1, 2, 4, 5} THEN FindTexts(td, RoleRefTags)
  ELSE IF i = 3 THEN FindTexts(td, ConceptTags)
  ELSE IF i \in 6..9 THEN FindTexts(td, AttrRefTags)
  ELSE IF i = 10 THEN SplitTokens(cleanText(td.text))
  ELSE IsTrueCell(cleanText(td.text))

Last(S) == CHOOSE j \in S : \A k \in S : k <= j

\* the role block of the documents of this family, when parseRoles has just
\* returned
RowsOfSwitch ==
  IF pc = "parseAttrs" /\ MapHas(roles, "switch") /\ Len(Val(files.aria).roleBlocks) = 1
  THEN Def(Val(files.aria).roleBlocks[1].rows)
  ELSE Undefined

\* C20: a field of a role is set by the rows that its rule wins and by no
\* other row: it has its initial value when its rule wins no row, and
\* otherwise the value the last row its rule wins gives it (for the implicit
\* values, the pairs of every row the rule wins).
C20_FirstRuleWinsRow ==
  IsDef(RowsOfSwitch) =>
    LET rows == Val(RowsOfSwitch)
        role == MapVal(roles, "switch")
    IN \A i \in Rules :
         LET won == {j \in 1..Len(rows) : FirstRule(rows[j].th) = i}
         IN IF won = {} THEN role[RuleFields[i]] = NewRole("switch", "")[RuleFields[i]]
            ELSE IF i = ImplicitRule
            THEN Range(MapKeys(role.implicitValueForRole))
                   = UNION {{ImplicitPairs(cleanText(rows[j].td.text))[n].prop :
                               n \in 1..Len(ImplicitPairs(cleanText(rows[j].td.text)))} :
                            j \in won}
            ELSE role[RuleFields[i]] = FieldFrom(i, rows[Last(won)].td)

\* a row whose header holds the phrases of rules 7 and 8, the later rule's
\* phrase first, has set the field of rule 7 only
C20_Witness ==
  /\ IsDef(RowsOfSwitch)
  /\ Len(Val(RowsOfSwitch)) = MaxRows
  /\ Val(RowsOfSwitch)[1].th = "Inherited States and Supported Properties:"
  /\ Val(RowsOfSwitch)[MaxRows].th = "Is Abstract; Implicit Value:"
  /\ MapVal(roles, "switch").supportedStates = <<"aria-checked">>
  /\ MapVal(roles, "switch").inheritedStates = <<>>
  /\ MapVal(roles, "switch").implicitValueForRole = <<>>

(***************************************************************************)
(* C21                                                                     *)
(***************************************************************************)
\* the cell texts of the model that are the word true, in any letter case,
\* with or without white space around it, and nothing else
TrueTokenTexts == {"True", "TRUE", " True "}

BooleanFields == {"accessibleNameRequired", "childrenPresentational", "isAbstract"}

RuleOf(field) == CHOOSE i \in Rules : RuleFields[i] = field

Extracted == pc = "parseRoleInfo"

HasId(block) == ~NoId(block.id)

IdsOf(blocks) == {Val(blocks[i].id) : i \in {j \in 1..Len(blocks) : HasId(blocks[j])}}

\* the document without its blocks that have no id
WithoutIdless(doc) ==
  AriaDoc(SelectSeq(doc.roleBlocks, HasId), SelectSeq(doc.attrBlocks, HasId))

\* C22: a role block or state/property block without an id gives no record
\* and does not end the scan: the keys of each map are the ids of the blocks
\* that have one, wherever the blocks without id stand, and each record is the
\* one the document gives with the blocks without id taken out.
C22_IdlessBlockSkipped ==
  Extracted =>
    LET doc == Val(files.aria)
    IN /\ Range(MapKeys(roles)) = IdsOf(doc.roleBlocks)
       /\ Range(MapKeys(statesAndProperties)) = IdsOf(doc.attrBlocks)
       /\ NoDup(MapKeys(roles)) /\ NoDup(MapKeys(statesAndProperties))
       /\ roles = parseRoles(WithoutIdless(doc))
       /\ statesAndProperties = parseStatesAndProperties(WithoutIdless(doc))

\* a block without id between two blocks with one: both have their records
C22_Witness ==
  /\ Extracted
  /\ Len(Val(files.aria).roleBlocks) = 3
  /\ Val(files.aria).roleBlocks[1].id = Def("banner")
  /\ Val(files.aria).roleBlocks[2].id = Undefined
  /\ Val(files.aria).roleBlocks[3] = RoleBlock(Def("alert"), <<Row("Is Abstract:", Text("True"))>>)
  /\ MapKeys(roles) = <<"banner", "alert">>
  /\ MapVal(roles, "alert").isAbstract

(***************************************************************************)
(* C23                                                                     *)
(***************************************************************************)
\* the block a record of the attribute map is built from: the last with the id
BlockOf(blocks, id) ==
  blocks[Last({j \in 1..Len(blocks) : HasId(blocks[j]) /\ Val(blocks[j].id) = id})]

KindOf(block) == IF block.isState THEN "state" ELSE "property"

\* states and properties, as maps, split the map all in two by kind
Partitions(all, sts, props) ==
  /\ Range(MapKeys(sts)) \cup Range(MapKeys(props)) = Range(MapKeys(all))
  /\ Range(MapKeys(sts)) \cap Range(MapKeys(props)) = {}
  /\ NoDup(MapKeys(sts)) /\ NoDup(MapKeys(props))
  /\ \A i \in 1..Len(all) :
       LET a == all[i]
       IN IF a.v.type = "state"
          THEN MapHas(sts, a.k) /\ MapVal(sts, a.k) = a.v
          ELSE MapHas(props, a.k) /\ MapVal(props, a.k) = a.v

KindsFromMarkers ==
  pc \notin {"start", "parseRoles", "parseAttrs", "exit1", "caught"} =>
    /\ \A i \in 1..Len(statesAndProperties) :
         statesAndProperties[i].v.type
           = KindOf(BlockOf(Val(files.aria).attrBlocks, statesAndProperties[i].k))
    /\ Partitions(statesAndProperties, states, properties)
    /\ IsDef(output) =>
         /\ Val(output).states = states
         /\ Val(output).properties = properties
         /\ Range(Val(output).globalStatesAndProperties)
              \subseteq Range(MapKeys(states)) \cup Range(MapKeys(properties))

\* no step after the extraction touches the attribute maps
AttributesKept ==
  pc # "parseAttrs" =>
    /\ statesAndProperties' = statesAndProperties
    /\ states' = states
    /\ properties' = properties

\* C23: the kind of an attribute is the one its block's marker gives (state for
\* a state block, property otherwise) and no later step changes it; states and
\* properties partition the extracted attributes by kind, in the run and in
\* the dataset written, and every name of the global index is a key of one of
\* the two.
C23_KindFixedAndPartition == []KindsFromMarkers /\ [][AttributesKept]_vars

\* a global state and a property, each in its own map of the dataset
C23_Witness ==
  /\ IsDef(output)
  /\ Len(Val(files.aria).attrBlocks) = 2
  /\ MapKeys(Val(output).states) = <<"aria-label">>
  /\ MapKeys(Val(output).properties) = <<"aria-atomic">>
  /\ Val(output).globalStatesAndProperties = <<"aria-label">>

(***************************************************************************)
(* C24                                                                     *)
(***************************************************************************)
\* the captions of the model that hold "html element" or "role mapping"
RecognizedCaptions == {"HTML Element Role Mappings", "ARIA Role Mapping"}

BlankTexts == {"", "  "}

\* the rows of the recognized tables, in document order
RECURSIVE RecognizedRows(_)
RecognizedRows(tables) ==
  IF tables = <<>> THEN <<>>
  ELSE (IF Head(tables).caption \in RecognizedCaptions THEN Head(tables).rows ELSE <<>>)
         \o RecognizedRows(Tail(tables))

\* a row with an element cell and a role cell, neither blank
Contributes(cells) ==
  Len(cells) >= 2 /\ cells[1] \notin BlankTexts /\ cells[2] \notin BlankTexts

MappingsParsed == pc = "parseDpub" /\ existsSync("htmlAam")

RECURSIVE FirstOccurrences(_, _)
FirstOccurrences(blocks, seen) ==
  IF blocks = <<>> THEN <<>>
  ELSE IF ~HasId(Head(blocks)) \/ Val(Head(blocks).id) \in seen
       THEN FirstOccurrences(Tail(blocks), seen)
       ELSE <<Val(Head(blocks).id)>>
              \o FirstOccurrences(Tail(blocks), seen \cup {Val(Head(blocks).id)})

\* the record a role block gives when it is the only block of the document
RoleAlone(block) == parseRoles(AriaDoc(<<block>>, <<>>))[1].v

AttrAlone(block) == parseStatesAndProperties(AriaDoc(<<>>, <<block>>))[1].v

\* C25: when blocks share an id the map has one entry for it, at the place
\* of the first of them in key order, and the entry is the record of the
\* last of them alone: every field, also one the last block has no row for,
\* is the last block's.
C25_LaterBlockReplaces ==
  Extracted =>
    LET doc == Val(files.aria)
    IN /\ MapKeys(roles) = FirstOccurrences(doc.roleBlocks, {})
       /\ MapKeys(statesAndProperties) = FirstOccurrences(doc.attrBlocks, {})
       /\ \A i \in 1..Len(roles) :
            roles[i].v = RoleAlone(BlockOf(doc.roleBlocks, roles[i].k))
       /\ \A i \in 1..Len(statesAndProperties) :
            statesAndProperties[i].v
              = AttrAlone(BlockOf(doc.attrBlocks, statesAndProperties[i].k))

\* banner, alert, banner: the first banner is abstract and the second has
\* no row; the entry is not abstract and stands before alert
C25_Witness ==
  /\ Extracted
  /\ Val(files.aria).roleBlocks
       = <<RoleBlock(Def("banner"), <<Row("Is Abstract:", Text("True"))>>),
           RoleBlock(Def("alert"), <<>>),
           RoleBlock(Def("banner"), <<>>)>>
  /\ MapKeys(roles) = <<"banner", "alert">>
  /\ ~MapVal(roles, "banner").isAbstract

(***************************************************************************)
(* C26                                                                     *)
(***************************************************************************)
\* C26: a call of get-role-hierarchy that has entered its loop returns,
\* whatever the superclass data of the dataset is.
C26_HierarchyTerminates == IsDef(walk) ~> ~IsDef(walk)

(***************************************************************************)
(* C27                                                                     *)
(***************************************************************************)
\* the structured tables without a parent cycle
AcyclicTables == {t \in GraphTables \cup ListTables : Acyclic(t)}

AcyclicFiles ==
  {Files(Def(TableRolesDoc), Table(t)) : t \in AcyclicTables} \cup CommonFiles

InitAcyclic == Start(AcyclicFiles)

\* one run over every structured table without a parent cycle
SpecAcyclic == InitAcyclic /\ [][NextRun]_vars

\* the reference resolver: the roles of the current call chain are passed
\* down by value, so a role is blocked only under itself
RECURSIVE PathResolve(_, _, _)
RECURSIVE PathParents(_, _, _, _)
PathResolve(table, roleName, path) ==
  IF roleName \in path THEN <<>>
  ELSE IF ~MapHas(table, roleName) THEN <<>>
  ELSE LET e == MapVal(table, roleName)
       IN IF IsDef(e.allprops) THEN Val(e.allprops)
          ELSE PathParents(table, OrElse(e.parentRoles, <<>>), path \cup {roleName},
                           OrElse(e.localprops, <<>>))

PathParents(table, parents, path, props) ==
  IF parents = <<>> THEN props
  ELSE PathParents(table, Tail(parents), path,
                   AppendNew(props, PathResolve(table, Head(parents), path)))

\* C27: over a table without a parent cycle the list main stores for a role,
\* resolved with the one visited set that all branches share, is the list
\* of the reference resolver, entry for entry and in the same order.
C27_SharedVisitedAsPerPath ==
  \A r \in TableRoles :
    (JustResolved(r) /\ Acyclic(roleInfo)) =>
      AllPropsOf(r) = PathResolve(roleInfo, r, {})

\* switch reaches input twice, first as its own parent and then through
\* checkbox, where the shared set blocks it and the reference resolver
\* resolves it again
C27_Witness ==
  /\ JustResolved("switch")
  /\ Acyclic(roleInfo)
  /\ calls = <<"switch", "input", "checkbox", "input">>
  /\ OwnProps(MapVal(roleInfo, "input")) # <<>>
  /\ PathResolve(roleInfo, "checkbox", {}) # OwnProps(MapVal(roleInfo, "checkbox"))
  /\ Len(AllPropsOf("switch")) > Len(OwnProps(MapVal(roleInfo, "switch")))

(***************************************************************************)
(* C28                                                                     *)
(***************************************************************************)
\* the table is in memory
TableLoaded == pc \in {"merge", "resolve"} \/ MergeDone

\* main has merged the table entry of r into the role map
Merged(r) ==
  /\ TableLoaded
  /\ Resolved(r)
  /\ \/ MergeDone
     \/ MapGet(roleInfo, r) < mi
     \/ MapGet(roleInfo, r) = mi /\ pc = "resolve"

\* C28: while and after the roles are resolved the table in memory is the
\* table as it was read: no list of any entry has gained, lost or moved an
\* entry; and the localProps of every merged role are its entry's localprops
\* (the empty list for an entry without), however many entries its allProps
\* have taken from parents.
C28_TableUnchanged ==
  TableLoaded =>
    /\ roleInfo = parseRoleInfoJS(files.roleInfo)
    /\ \A r \in TableRoles :
         Merged(r) =>
           MapVal(roles, r).localProps
             = Def(OrElse(MapVal(parseRoleInfoJS(files.roleInfo), r).localprops, <<>>))

\* switch has taken entries from its parents into allProps; its localProps
\* and the table's lists are as they were read
C28_Witness ==
  /\ MergeDone
  /\ Resolved("switch")
  /\ IsDef(MapVal(roleInfo, "switch").localprops)
  /\ ~IsDef(MapVal(roleInfo, "switch").allprops)
  /\ Len(calls) > 1
  /\ Names(AllPropsOf("switch")) \ Names(Val(MapVal(roles, "switch").localProps)) # {}
  /\ Val(MapVal(roles, "switch").localProps) = Val(MapVal(roleInfo, "switch").localprops)

(***************************************************************************)
(* C29                                                                     *)
(***************************************************************************)
\* the headers of the model with the word value, and those with the word
\* default and without the word value
HeadersWithValue == {"Value:", "Default value:"}

HeadersDefaultOnly == {"Default:"}

\* the rows of the property block of the documents of this family, when the
\* extraction has just returned
RowsOfLabel ==
  IF Extracted /\ MapHas(statesAndProperties, "aria-label")
       /\ Len(Val(files.aria).attrBlocks) = 1
  THEN Def(Val(files.aria).attrBlocks[1].rows)
  ELSE Undefined

\* the cell of the last row with a header of H, or the empty string
LastCellOf(rows, H) ==
  LET hit == {j \in 1..Len(rows) : rows[j].th \in H}
  IN IF hit = {} THEN "" ELSE rows[Last(hit)].td.text

\* C29: a row whose header has the word value, with or without the word
\* default, sets valueType and leaves defaultValue alone; defaultValue is set
\* only by a row whose header has default and not value.
C29_ValueRuleBeforeDefault ==
  IsDef(RowsOfLabel) =>
    LET rows == Val(RowsOfLabel)
        attr == MapVal(statesAndProperties, "aria-label")
    IN /\ attr.valueType = LastCellOf(rows, HeadersWithValue)
       /\ attr.defaultValue = LastCellOf(rows, HeadersDefaultOnly)

\* 'Default:' then 'Default value:': the second row has set valueType and
\* the defaultValue is still the first row's
C29_Witness ==
  /\ IsDef(RowsOfLabel)
  /\ Len(Val(RowsOfLabel)) >= 2
  /\ Val(RowsOfLabel)[1] = Row("Default:", Text("False"))
  /\ Val(RowsOfLabel)[2] = Row("Default value:", Text("True"))
  /\ \A j \in 1..Len(Val(RowsOfLabel)) : j > 2 => Val(RowsOfLabel)[j].th = "Note:"
  /\ MapVal(statesAndProperties, "aria-label").valueType = "True"
  /\ MapVal(statesAndProperties, "aria-label").defaultValue = "False"

====
